---- MODULE Spec2Model ----
(***************************************************************************)
(* The vector index store (backend/services/vector_store.py) and the       *)
(* multi-file retrieval built on it (backend/services/retriever.py).       *)
(*                                                                         *)
(* One VectorStore object over one base directory.  The state is the two   *)
(* cache dictionaries of the object and the two artifacts per file_id in   *)
(* the directory.  Every public method is one action; the methods          *)
(* themselves are operators from a store value to a result and a new store *)
(* value, written statement by statement after the Python code.            *)
(***************************************************************************)
EXTENDS Integers, Sequences, FiniteSets, TLC

(***************************************************************************)
(* Bounds of the model.                                                    *)
(***************************************************************************)
\* most vectors one index holds, and most rows of one add_vectors call
MaxVectors == 2
\* most writes or removes that fail, or stops of the process inside a call,
\* in one run
MaxIoFailures == 1
\* most calls one request thread makes
MaxCalls == 2
\* longest text of a result and largest max_length of a context
MaxTextLength == 2
MaxContextLength == 16
\* most pieces of a document
MaxPieces == 5

(***************************************************************************)
(* Input domains.                                                          *)
(***************************************************************************)
FileIds == {"f1", "f2"}

SegmentIds == {"s1", "s2", "s3"}

\* The embedding of a segment's text (EmbeddingService.encode_text is a
\* function of the text).  Coordinates are small integers, exact in float32,
\* so embeddings.astype(np.float32) keeps them.  s1 and s2 have distinct unit
\* vectors of dimension 2; s3 was embedded by a model of another dimension.
Embedding(segment_id) ==
    CASE segment_id = "s1" -> <<1, 0>>
      [] segment_id = "s2" -> <<0, 1>>
      [] OTHER -> <<1>>

Vectors == {Embedding(s) : s \in SegmentIds}

\* Query vectors: a stored unit vector, the zero vector encode_text("") gives
\* and a vector of the other dimension.
QueryVectors == {<<1, 0>>, <<0, 0>>, <<1>>}

\* top_k of a search: up to one more than an index can hold
TopKs == 1..(MaxVectors + 1)

\* A VectorMetadata record as encode_segments builds it, cut to the field
\* that identifies the segment.
VectorMetadata == [segment_id : SegmentIds]

BSeq(S, n) == UNION {[1..k -> S] : k \in 0..n}

\* The segment lists one call embeds.  The embeddings are a numpy matrix:
\* all rows have the same length.
SegmentLists ==
    {segs \in BSeq(SegmentIds, MaxVectors) :
        \A i, j \in 1..Len(segs) : Len(Embedding(segs[i])) = Len(Embedding(segs[j]))}

\* encode_segments: row i is the embedding of segment i, metadata[i] its record.
EmbeddingsOf(segs) == [i \in 1..Len(segs) |-> Embedding(segs[i])]

MetadataOf(segs) == [i \in 1..Len(segs) |-> [segment_id |-> segs[i]]]

\* The arguments (embeddings, metadata) of an add_vectors call: what
\* encode_segments returns for a segment list, and pairs of lists whose
\* lengths differ.
AddArguments ==
    {<<EmbeddingsOf(segs), MetadataOf(segs)>> : segs \in SegmentLists}
        \cup {<<EmbeddingsOf(<<>>), MetadataOf(<<"s1">>)>>,
              <<EmbeddingsOf(<<"s1">>), MetadataOf(<<>>)>>,
              <<EmbeddingsOf(<<"s1", "s2">>), MetadataOf(<<"s2">>)>>}

\* FAISS leaves the order among equal scores to the implementation: a search
\* breaks ties by ascending or by descending position.
TieOrders == {"asc", "desc"}

\* The lists of file ids of a multi-file call: any order, with repetition.
FileIdLists == BSeq(FileIds, 2)

\* The query texts: the empty one and another.
\* The orders in which os.listdir may give the directory entries.
DirectoryOrders == {<<"f1", "f2">>, <<"f2", "f1">>}

\* The query texts of retrieve_all_available: the API's vector for "r" is
\* nearer to segment s1 than to s2 and matches both.
AllQueryTexts == {"", "q", "r"}

\* What the metadata of a segment may carry as text_preview or text: the
\* length, the length once stripped, and whether it contains both "===" and
\* "ISSN".  In turn a passage, a long text with the markers, a journal
\* header and a nearly blank text, for the segments s1 and s2.
TextAssignments ==
    LET Texts == {[len |-> 30, stripped |-> 30, markers |-> FALSE],
                  [len |-> 600, stripped |-> 600, markers |-> TRUE],
                  [len |-> 100, stripped |-> 100, markers |-> TRUE],
                  [len |-> 25, stripped |-> 5, markers |-> FALSE]}
    IN  {[seg \in SegmentIds |-> IF seg = "s1" THEN a ELSE b] : a, b \in Texts}

QueryTexts == {"", "q"}

\* Config.RAG_TOP_K and Config.RAG_MIN_SIMILARITY, and the default top_k of
\* search_multiple_files.
RAG_TOP_K == 3

RAG_MIN_SIMILARITY == 0

DefaultTopK == 5

\* The similarity thresholds of a call.
MinSimilarities == {0, 1}

Min(a, b) == IF a < b THEN a ELSE b

\* The request threads that share the one VectorStore of the process.
Threads == {"t1", "t2"}

\* A thread outside any call; calls and adds count the calls and the
\* add_vectors calls it has made.
Idle(calls, adds) ==
    [pc |-> "idle", op |-> "none", calls |-> calls, adds |-> adds, file_id |-> "",
     segment_id |-> "", index |-> 0, metadata |-> <<>>, ret |-> <<>>]

(***************************************************************************)
(* State.                                                                  *)
(***************************************************************************)
VARIABLES
    index_cache,     \* self.index_cache: file_id -> index
    metadata_cache,  \* self.metadata_cache: file_id -> metadata list
    faiss_file,      \* <base_dir>/<file_id>.faiss: file_id -> stored index
    metadata_file,   \* <base_dir>/<file_id>_metadata.json: file_id -> JSON text
    last,            \* the last call: its name, arguments and result
    io_failures,     \* history: the writes and removes that failed and the stops
                     \* of the process inside a call, counted
    heap,            \* the FAISS index objects of the process, by reference
    index_ref,       \* self.index_cache as the threads share it: file_id -> reference
    thread,          \* per request thread: the call it is in, its position and locals
    added            \* history: per file_id the segments of the adds that returned
                     \* True since the last delete_index, in the order of return

\* The variables of the threaded runs; the calls of one thread at a time
\* leave them alone.
cvars == <<heap, index_ref, thread, added>>

vars == <<index_cache, metadata_cache, faiss_file, metadata_file, last, io_failures,
          heap, index_ref, thread, added>>

\* The store as one value, for the method operators.
Store ==
    [index_cache |-> index_cache, metadata_cache |-> metadata_cache,
     faiss_file |-> faiss_file, metadata_file |-> metadata_file]

EmptyDict == [f \in {} |-> <<>>]

\* del d[f]
Without(d, f) == [g \in DOMAIN d \ {f} |-> d[g]]

\* d[f] = v
With(d, f, v) == [g \in DOMAIN d \cup {f} |-> IF g = f THEN v ELSE d[g]]

(***************************************************************************)
(* The FAISS flat index: its dimension and its rows in insertion order.    *)
(***************************************************************************)
create_index(embedding_dim) == [d |-> embedding_dim, xb |-> <<>>]

ntotal(index) == Len(index.xb)

\* index.add(embeddings_f32): appends the rows in place.
index_add(index, embeddings) == [index EXCEPT !.xb = @ \o embeddings]

RECURSIVE Dot(_, _)
Dot(u, v) == IF Len(u) = 0 THEN 0 ELSE u[1] * v[1] + Dot(Tail(u), Tail(v))

\* Row j (0-based) comes before row i in the result of a search.
Before(index, q, tie, j, i) ==
    LET sj == Dot(index.xb[j + 1], q)
        si == Dot(index.xb[i + 1], q)
    IN  \/ sj > si
        \/ sj = si /\ ((tie = "asc" /\ j < i) \/ (tie = "desc" /\ j > i))

\* index.search(query_vector, k): the 0-based positions of the k rows of
\* largest inner product, best first.
index_search(index, q, k, tie) ==
    LET n == ntotal(index)
        place(i) == Cardinality({j \in 0..(n - 1) : Before(index, q, tie, j, i)})
    IN  [r \in 1..k |-> CHOOSE i \in 0..(n - 1) : place(i) = r - 1]

(***************************************************************************)
(* json.dump / json.load of the metadata list: a record becomes the text   *)
(* of its key and value, and is rebuilt from it.                           *)
(***************************************************************************)
json_dump(metadata) ==
    [i \in 1..Len(metadata) |-> <<"segment_id", metadata[i].segment_id>>]

json_load(text) ==
    [i \in 1..Len(text) |-> [segment_id |-> text[i][2]]]

(***************************************************************************)
(* What the file system does to a call.  A write or a remove either works  *)
(* or raises and leaves the file as it was; the process may also stop      *)
(* between the two writes of save_index.                                   *)
(***************************************************************************)
SaveOutcomes == {"ok", "write_index_fails", "write_metadata_fails", "stop_between_writes"}

DeleteOutcomes == {"ok", "remove_index_fails", "remove_metadata_fails"}

(***************************************************************************)
(* VectorStore methods.  S is the store before the call.                   *)
(***************************************************************************)
\* os.path.exists(self._get_index_path(file_id))
index_exists(S, file_id) == file_id \in DOMAIN S.faiss_file

\* Reads both artifacts and caches the pair.  ok = FALSE: it raised.
load_index(S, file_id) ==
    IF file_id \notin DOMAIN S.faiss_file
    THEN [ok |-> FALSE, index |-> create_index(0), metadata |-> <<>>, store |-> S]
    ELSE LET index == S.faiss_file[file_id]
             metadata == IF file_id \in DOMAIN S.metadata_file
                         THEN json_load(S.metadata_file[file_id])
                         ELSE <<>>
         IN  [ok |-> TRUE, index |-> index, metadata |-> metadata,
              store |-> [S EXCEPT !.index_cache = With(@, file_id, index),
                                  !.metadata_cache = With(@, file_id, metadata)]]

\* The cached pair when there is one, else load_index.
cached_or_load(S, file_id) ==
    IF file_id \in DOMAIN S.index_cache
    THEN [ok |-> TRUE, index |-> S.index_cache[file_id],
          metadata |-> S.metadata_cache[file_id], store |-> S]
    ELSE load_index(S, file_id)

\* Writes the index artifact, then the metadata artifact; an exception of
\* either write is caught and reported as False.
save_index(S, file_id, index, metadata, io) ==
    IF io = "write_index_fails"
    THEN [ok |-> FALSE, store |-> S]
    ELSE LET S1 == [S EXCEPT !.faiss_file = With(@, file_id, index)]
         IN  IF io = "write_metadata_fails"
             THEN [ok |-> FALSE, store |-> S1]
             ELSE [ok |-> TRUE,
                   store |-> [S1 EXCEPT !.metadata_file =
                                            With(@, file_id, json_dump(metadata))]]

\* The index and metadata add_vectors appends to: the cached pair, else the
\* pair loaded from disk, else a new empty index.
existing_index(S, file_id, embedding_dim) ==
    IF file_id \in DOMAIN S.index_cache
    THEN [index |-> S.index_cache[file_id],
          metadata |-> S.metadata_cache[file_id], store |-> S]
    ELSE IF index_exists(S, file_id)
         THEN LET l == load_index(S, file_id)
              IN  [index |-> l.index, metadata |-> l.metadata, store |-> l.store]
         ELSE [index |-> create_index(embedding_dim), metadata |-> <<>>, store |-> S]

\* Mutant of lengths_differ: the length check is left out.
lengths_differ_unchecked(embeddings, metadata) == FALSE

\* len(embeddings) != len(metadata) raises ValueError
lengths_differ(embeddings, metadata) == Len(embeddings) # Len(metadata)

\* Mutant of concat_metadata: the new records are put first.
concat_metadata_new_first(existing_metadata, metadata) == metadata \o existing_metadata

\* updated_metadata = existing_metadata + metadata
concat_metadata(existing_metadata, metadata) == existing_metadata \o metadata

\* The value add_vectors returns after save_index returned `saved`.
add_result(saved) == TRUE

\* returned = FALSE: the process stopped inside the call.  failed: a write
\* of this call failed or the process stopped.
add_vectors(S, file_id, embeddings, metadata, io) ==
    IF lengths_differ(embeddings, metadata)
    THEN [returned |-> TRUE, ret |-> FALSE, failed |-> FALSE, store |-> S]
    ELSE IF Len(embeddings) = 0
    THEN [returned |-> TRUE, ret |-> TRUE, failed |-> FALSE, store |-> S]
    ELSE LET embedding_dim == Len(embeddings[1])
             found == existing_index(S, file_id, embedding_dim)
         IN  IF embedding_dim # found.index.d
             THEN \* index.add raises: the dimension differs
                  [returned |-> TRUE, ret |-> FALSE, failed |-> FALSE,
                   store |-> found.store]
             ELSE LET index == index_add(found.index, embeddings)
                      updated_metadata == concat_metadata(found.metadata, metadata)
                      S1 == [found.store EXCEPT
                                !.index_cache = With(@, file_id, index),
                                !.metadata_cache = With(@, file_id, updated_metadata)]
                  IN  IF io = "stop_between_writes"
                      THEN [returned |-> FALSE, ret |-> FALSE, failed |-> TRUE,
                            store |-> [S1 EXCEPT
                                          !.faiss_file = With(@, file_id, index),
                                          !.index_cache = EmptyDict,
                                          !.metadata_cache = EmptyDict]]
                      ELSE LET saved == save_index(S1, file_id, index,
                                                   updated_metadata, io)
                           IN  [returned |-> TRUE, ret |-> add_result(saved),
                                failed |-> ~saved.ok, store |-> saved.store]

\* The result records of one search: position i (0-based) of the labels
\* gives rank i + 1; a label outside the metadata list is skipped.
build_results(index, q, labels, metadata) ==
    LET hits == [i \in 1..Len(labels) |->
                    [rank |-> i, idx |-> labels[i],
                     similarity |-> Dot(index.xb[labels[i] + 1], q)]]
        kept == SelectSeq(hits, LAMBDA h : h.idx # -1 /\ h.idx < Len(metadata))
    IN  [i \in 1..Len(kept) |->
            [rank |-> kept[i].rank, score |-> kept[i].similarity,
             similarity |-> kept[i].similarity,
             metadata |-> metadata[kept[i].idx + 1]]]

search(S, file_id, query_vector, top_k, tie) ==
    LET found == cached_or_load(S, file_id)
    IN  IF ~found.ok
        THEN [ret |-> <<>>, store |-> S]
        ELSE IF ntotal(found.index) = 0
        THEN [ret |-> <<>>, store |-> found.store]
        ELSE IF Len(query_vector) # found.index.d
        THEN \* index.search raises: the dimension differs
             [ret |-> <<>>, store |-> found.store]
        ELSE LET actual_k == Min(top_k, ntotal(found.index))
                 labels == index_search(found.index, query_vector, actual_k, tie)
             IN  [ret |-> build_results(found.index, query_vector, labels,
                                        found.metadata),
                  store |-> found.store]

get_index_info(S, file_id) ==
    IF ~index_exists(S, file_id)
    THEN [ret |-> [exists |-> FALSE], store |-> S]
    ELSE LET found == cached_or_load(S, file_id)
         IN  [ret |-> [exists |-> TRUE, file_id |-> file_id,
                       vector_count |-> ntotal(found.index),
                       embedding_dimension |-> found.index.d,
                       metadata_count |-> Len(found.metadata)],
              store |-> found.store]

\* Mutant of delete_index: the cache entries are kept.
delete_index_keeps_cache(S, file_id, io) ==
    [ret |-> TRUE, failed |-> FALSE,
     store |-> [S EXCEPT !.faiss_file = Without(@, file_id),
                         !.metadata_file = Without(@, file_id)]]

\* Drops the cache entries, then removes the index artifact and the
\* metadata artifact; an exception of os.remove is reported as False.
\* (The third path, <file_id>_embeddings.pkl, is never written.)
delete_index(S, file_id, io) ==
    LET S1 == [S EXCEPT !.index_cache = Without(@, file_id),
                        !.metadata_cache = Without(@, file_id)]
    IN  IF io = "remove_index_fails" /\ file_id \in DOMAIN S.faiss_file
        THEN [ret |-> FALSE, failed |-> TRUE, store |-> S1]
        ELSE LET S2 == [S1 EXCEPT !.faiss_file = Without(@, file_id)]
             IN  IF io = "remove_metadata_fails" /\ file_id \in DOMAIN S.metadata_file
                 THEN [ret |-> FALSE, failed |-> TRUE, store |-> S2]
                 ELSE [ret |-> TRUE, failed |-> FALSE,
                       store |-> [S2 EXCEPT !.metadata_file = Without(@, file_id)]]

\* A scan that takes the cached file ids for the directory entries.
faiss_files_cached(S) == DOMAIN S.index_cache

\* The file ids of the entries of base_dir that end with ".faiss".
faiss_files(S) == DOMAIN S.faiss_file

\* The loop of list_all_indices over the directory entries still to visit:
\* get_index_info of each, kept when it reports exists.
RECURSIVE list_each(_, _, _)
list_each(S, indices, entries) ==
    IF entries = <<>>
    THEN [ret |-> indices, store |-> S]
    ELSE LET r == get_index_info(S, Head(entries))
         IN  list_each(r.store,
                       IF r.ret.exists THEN Append(indices, r.ret) ELSE indices,
                       Tail(entries))

\* os.listdir gives the entries in the order listing, an order the file
\* system picks.
list_all_indices(S, listing) ==
    list_each(S, <<>>, SelectSeq(listing, LAMBDA f : f \in faiss_files(S)))

clear_cache(S) == [S EXCEPT !.index_cache = EmptyDict, !.metadata_cache = EmptyDict]

\* Mutant of put_result: a file_id without results gets no key.
put_result_skips_empty(results, file_id, file_results) ==
    IF file_results = <<>> THEN results ELSE With(results, file_id, file_results)

\* results[file_id] = file_results
put_result(results, file_id, file_results) == With(results, file_id, file_results)

\* The loop of search_multiple_files over the file ids still to visit: a
\* file_id without a vector artifact gets an empty list, any other one what
\* search returns.
RECURSIVE search_each_existing(_, _, _, _, _, _)
search_each_existing(S, results, file_ids, query_vector, top_k, tie) ==
    IF file_ids = <<>>
    THEN [ret |-> results, store |-> S]
    ELSE LET file_id == Head(file_ids)
             r == IF index_exists(S, file_id)
                  THEN search(S, file_id, query_vector, top_k, tie)
                  ELSE [ret |-> <<>>, store |-> S]
         IN  search_each_existing(r.store, put_result(results, file_id, r.ret),
                                  Tail(file_ids), query_vector, top_k, tie)

search_multiple_files(S, file_ids, query_vector, top_k, tie) ==
    search_each_existing(S, EmptyDict, file_ids, query_vector, top_k, tie)

(***************************************************************************)
(* RetrieverService: the query is embedded once, each file_id is searched, *)
(* and the results below the similarity threshold are dropped.             *)
(***************************************************************************)
\* EmbeddingService.encode_text: the zero vector for an empty text (and for
\* a text the model fails on), the model's vector otherwise.
encode_text(text) == IF text = "" THEN <<0, 0>> ELSE <<1, 0>>

\* encode_text does not raise, so neither does encode_query_local.
encode_query_local(query) == encode_text(query)

\* What the embeddings API answers: a vector of the dimension of the
\* indices, or a vector of another dimension or an error.
OpenAIOutcomes == {"embedding", "other_dimension_or_error"}

OpenAIEmbedding(query) ==
    CASE query = "" -> <<0, 1>>
      [] query = "r" -> <<2, 1>>
      [] OTHER -> <<1, 0>>

\* Mutant of encode_query_openai: the API's vector is taken whatever the call
\* gave.
encode_query_openai_unguarded(query, openai) == OpenAIEmbedding(query)

\* The API's vector when it has the dimension of the indices, the local
\* model's vector otherwise.
encode_query_openai(query, openai) ==
    IF openai = "embedding" THEN OpenAIEmbedding(query) ELSE encode_query_local(query)

\* The loop of retrieve_from_multiple_files over the file ids still to
\* visit: every file_id is handed to search.
RECURSIVE search_each(_, _, _, _, _, _)
search_each(S, all_results, file_ids, query_vector, top_k, tie) ==
    IF file_ids = <<>>
    THEN [ret |-> all_results, store |-> S]
    ELSE LET file_id == Head(file_ids)
             r == search(S, file_id, query_vector, top_k, tie)
         IN  search_each(r.store, put_result(all_results, file_id, r.ret),
                         Tail(file_ids), query_vector, top_k, tie)

\* The results of one file_id at or above the threshold, each with the query
\* and the file_id attached.
filter_results(results, query, file_id, min_similarity) ==
    LET kept == SelectSeq(results, LAMBDA result : result.similarity >= min_similarity)
    IN  [i \in 1..Len(kept) |->
            [rank |-> kept[i].rank, score |-> kept[i].score,
             similarity |-> kept[i].similarity, metadata |-> kept[i].metadata,
             query |-> query, file_id |-> file_id]]

retrieve_from_multiple_files(S, query, file_ids, top_k_per_file, min_similarity, use_openai, openai, tie) ==
    LET query_vector == IF use_openai THEN encode_query_openai(query, openai)
                        ELSE encode_query_local(query)
        all == search_each(S, EmptyDict, file_ids, query_vector, top_k_per_file, tie)
    IN  [ret |-> [file_id \in DOMAIN all.ret |->
                     filter_results(all.ret[file_id], query, file_id, min_similarity)],
         store |-> all.store]

\* The query vector of a retrieval: by the API when use_openai is set and an
\* API key is configured, by the local model otherwise.
query_vector_of(query, use_openai, openai) ==
    IF use_openai THEN encode_query_openai(query, openai) ELSE encode_query_local(query)

\* Mutant of retrieve_from_file: the threshold test lets every result through.
retrieve_from_file_unfiltered(S, query, file_id, top_k, min_similarity, use_openai, openai, tie) ==
    LET info == get_index_info(S, file_id)
        r == search(info.store, file_id, query_vector_of(query, use_openai, openai),
                    top_k, tie)
    IN  IF ~info.ret.exists THEN [ret |-> <<>>, store |-> info.store]
        ELSE [ret |-> filter_results(r.ret, query, file_id, 0), store |-> r.store]

\* Nothing when get_index_info reports no index; else the results of the
\* search at or above the threshold, with the query and the file_id attached.
retrieve_from_file(S, query, file_id, top_k, min_similarity, use_openai, openai, tie) ==
    LET info == get_index_info(S, file_id)
        r == search(info.store, file_id, query_vector_of(query, use_openai, openai),
                    top_k, tie)
    IN  IF ~info.ret.exists THEN [ret |-> <<>>, store |-> info.store]
        ELSE [ret |-> filter_results(r.ret, query, file_id, min_similarity),
              store |-> r.store]

\* A split that hands every file the whole top_k_total.
per_file_top_k_whole(top_k_total, n) == top_k_total

\* per_file_top_k = max(1, top_k_total // len(file_ids))
per_file_top_k(top_k_total, n) ==
    IF top_k_total \div n >= 1 THEN top_k_total \div n ELSE 1

\* all_results.extend(results) for every file_id, in the order of the keys.
RECURSIVE merge_results(_, _)
merge_results(multi_results, file_ids) ==
    IF file_ids = <<>> THEN <<>>
    ELSE multi_results[Head(file_ids)] \o merge_results(multi_results, Tail(file_ids))

\* Puts result before the sorted list rest, behind the results of greater
\* similarity.
RECURSIVE insert_by_similarity(_, _)
insert_by_similarity(result, rest) ==
    IF rest = <<>> THEN <<result>>
    ELSE IF Head(rest).similarity > result.similarity
         THEN <<Head(rest)>> \o insert_by_similarity(result, Tail(rest))
         ELSE <<result>> \o rest

\* all_results.sort(key=similarity, reverse=True): the sort is stable.
RECURSIVE sort_by_similarity(_)
sort_by_similarity(results) ==
    IF results = <<>> THEN <<>>
    ELSE insert_by_similarity(Head(results), sort_by_similarity(Tail(results)))

\* A quality test without the similarity floor.
is_low_quality_without_floor(text, similarity) ==
    (text.markers /\ text.len < 500) \/ text.stripped < 20

\* is_journal_header or is_too_short or is_low_similarity (similarity < 0.02)
is_low_quality(text, similarity) ==
    \/ text.markers /\ text.len < 500
    \/ text.stripped < 20
    \/ similarity * 100 < 2

\* The first part of retrieve_all_available: the listed indices are searched
\* with the per-file limit and the results merged and sorted; listed says
\* whether list_all_indices gave any index.
sorted_results_of_all(S, query, top_k_total, min_similarity, use_openai, openai, tie, listing) ==
    LET all_indices == list_all_indices(S, listing)
        file_ids == [i \in 1..Len(all_indices.ret) |-> all_indices.ret[i].file_id]
        multi == retrieve_from_multiple_files(
                     all_indices.store, query, file_ids,
                     per_file_top_k(top_k_total, Len(file_ids)), min_similarity,
                     use_openai, openai, tie)
    IN  IF all_indices.ret = <<>>
        THEN [listed |-> FALSE, ret |-> <<>>, store |-> all_indices.store]
        ELSE [listed |-> TRUE, store |-> multi.store,
              ret |-> sort_by_similarity(merge_results(multi.ret, file_ids))]

\* The second part, on what the first part gave: nothing when no index is
\* listed; else the low-quality entries are dropped and the list is cut to
\* top_k_total.
quality_filtered(sorted, top_k_total, text_of) ==
    LET quality_filtered_results ==
            SelectSeq(sorted.ret,
                      LAMBDA result : ~is_low_quality(text_of[result.metadata.segment_id],
                                                      result.similarity))
    IN  IF ~sorted.listed THEN <<>>
        ELSE SubSeq(quality_filtered_results, 1,
                    Min(top_k_total, Len(quality_filtered_results)))

retrieve_all_available(S, query, top_k_total, min_similarity, use_openai, openai, tie, listing, text_of) ==
    LET sorted == sorted_results_of_all(S, query, top_k_total, min_similarity,
                                        use_openai, openai, tie, listing)
    IN  [ret |-> quality_filtered(sorted, top_k_total, text_of), store |-> sorted.store]

(***************************************************************************)
(* Actions: one per call of a public method, and the restart of the        *)
(* process.                                                                *)
(***************************************************************************)
SetStore(S) ==
    /\ index_cache' = S.index_cache
    /\ metadata_cache' = S.metadata_cache
    /\ faiss_file' = S.faiss_file
    /\ metadata_file' = S.metadata_file

\* The number of vectors file_id holds, in the cache or on disk.
HeldVectors(file_id) ==
    LET c == IF file_id \in DOMAIN index_cache THEN ntotal(index_cache[file_id]) ELSE 0
        d == IF file_id \in DOMAIN faiss_file THEN ntotal(faiss_file[file_id]) ELSE 0
    IN  IF c > d THEN c ELSE d

Failures(failed) == IF failed THEN 1 ELSE 0

\* Where file_id's index is held before a call: in the cache, only on disk,
\* or nowhere.
HeldIn(file_id) ==
    IF file_id \in DOMAIN index_cache THEN "cache"
    ELSE IF file_id \in DOMAIN faiss_file THEN "disk"
    ELSE "new"

Init ==
    /\ index_cache = EmptyDict
    /\ metadata_cache = EmptyDict
    /\ faiss_file = EmptyDict
    /\ metadata_file = EmptyDict
    /\ last = [op |-> "init"]
    /\ io_failures = 0
    /\ heap = <<>>
    /\ index_ref = EmptyDict
    /\ thread = [t \in Threads |-> Idle(0, 0)]
    /\ added = [f \in FileIds |-> <<>>]

AddVectors ==
    \E file_id \in FileIds, args \in AddArguments, io \in SaveOutcomes :
        /\ HeldVectors(file_id) + Len(args[1]) <= MaxVectors
        /\ io = "ok" \/ io_failures < MaxIoFailures
        /\ LET embeddings == args[1]
               metadata == args[2]
               r == add_vectors(Store, file_id, embeddings, metadata, io)
           IN  /\ io_failures + Failures(r.failed) <= MaxIoFailures
               /\ (io = "ok" \/ r.failed)
               /\ SetStore(r.store)
               /\ UNCHANGED cvars
               /\ last' = [op |-> "add_vectors", file_id |-> file_id,
                           embeddings |-> embeddings, metadata |-> metadata,
                           held_in |-> HeldIn(file_id),
                           returned |-> r.returned, ret |-> r.ret]
               /\ io_failures' = io_failures + Failures(r.failed)

Search ==
    \E file_id \in FileIds, query_vector \in QueryVectors,
       top_k \in TopKs, tie \in TieOrders :
        LET r == search(Store, file_id, query_vector, top_k, tie)
        IN  /\ SetStore(r.store)
            /\ UNCHANGED cvars
            /\ last' = [op |-> "search", file_id |-> file_id]
            /\ UNCHANGED io_failures

GetIndexInfo ==
    \E file_id \in FileIds :
        LET r == get_index_info(Store, file_id)
        IN  /\ SetStore(r.store)
            /\ UNCHANGED cvars
            /\ last' = [op |-> "get_index_info", file_id |-> file_id, ret |-> r.ret]
            /\ UNCHANGED io_failures

DeleteIndex ==
    \E file_id \in FileIds, io \in DeleteOutcomes :
        LET r == delete_index(Store, file_id, io)
        IN  /\ io = "ok" \/ io_failures < MaxIoFailures
            /\ (io = "ok" \/ r.failed)
            /\ SetStore(r.store)
            /\ UNCHANGED cvars
            /\ last' = [op |-> "delete_index", file_id |-> file_id, ret |-> r.ret,
                        held_in |-> HeldIn(file_id)]
            /\ io_failures' = io_failures + Failures(r.failed)

ListAllIndices ==
    \E listing \in DirectoryOrders :
        LET r == list_all_indices(Store, listing)
        IN  /\ SetStore(r.store)
            /\ UNCHANGED cvars
            /\ last' = [op |-> "list_all_indices", ret |-> r.ret]
            /\ UNCHANGED io_failures

ClearCache ==
    /\ SetStore(clear_cache(Store))
    /\ UNCHANGED cvars
    /\ last' = [op |-> "clear_cache"]
    /\ UNCHANGED io_failures

\* The process ends and a new VectorStore is built on the same directory:
\* __init__ starts with both caches empty.
Restart ==
    /\ SetStore([Store EXCEPT !.index_cache = EmptyDict, !.metadata_cache = EmptyDict])
    /\ UNCHANGED cvars
    /\ last' = [op |-> "restart"]
    /\ UNCHANGED io_failures

Next ==
    \/ AddVectors
    \/ Search
    \/ GetIndexInfo
    \/ ListAllIndices
    \/ DeleteIndex
    \/ ClearCache
    \/ Restart

Spec == Init /\ [][Next]_vars

(***************************************************************************)
(* The multi-file calls, on the stores that add_vectors, delete_index and   *)
(* clear_cache build.  Here a step records the name of the call only.       *)
(***************************************************************************)
AddVectorsBrief ==
    \E file_id \in FileIds, args \in AddArguments, io \in SaveOutcomes :
        /\ HeldVectors(file_id) + Len(args[1]) <= MaxVectors
        /\ io = "ok" \/ io_failures < MaxIoFailures
        /\ LET r == add_vectors(Store, file_id, args[1], args[2], io)
           IN  /\ io_failures + Failures(r.failed) <= MaxIoFailures
               /\ (io = "ok" \/ r.failed)
               /\ SetStore(r.store)
               /\ UNCHANGED cvars
               /\ last' = [op |-> "add_vectors"]
               /\ io_failures' = io_failures + Failures(r.failed)

DeleteIndexBrief ==
    \E file_id \in FileIds, io \in DeleteOutcomes :
        LET r == delete_index(Store, file_id, io)
        IN  /\ io = "ok" \/ io_failures < MaxIoFailures
            /\ (io = "ok" \/ r.failed)
            /\ SetStore(r.store)
            /\ UNCHANGED cvars
            /\ last' = [op |-> "delete_index"]
            /\ io_failures' = io_failures + Failures(r.failed)

\* search_multiple_files with the default top_k.
SearchMultipleFiles ==
    \E file_ids \in FileIdLists, query_vector \in QueryVectors, tie \in TieOrders :
        LET r == search_multiple_files(Store, file_ids, query_vector, DefaultTopK, tie)
        IN  /\ SetStore(r.store)
            /\ UNCHANGED cvars
            /\ last' = [op |-> "search_multiple_files"]
            /\ UNCHANGED io_failures

\* retrieve_from_multiple_files with the configured top_k and threshold.
RetrieveFromMultipleFiles ==
    \E query \in QueryTexts, file_ids \in FileIdLists, openai \in OpenAIOutcomes,
       tie \in TieOrders :
        LET r == retrieve_from_multiple_files(Store, query, file_ids, RAG_TOP_K,
                                              RAG_MIN_SIMILARITY, TRUE, openai, tie)
        IN  /\ SetStore(r.store)
            /\ UNCHANGED cvars
            /\ last' = [op |-> "retrieve_from_multiple_files"]
            /\ UNCHANGED io_failures

RetrieveFromFile ==
    \E query \in QueryTexts, file_id \in FileIds, openai \in OpenAIOutcomes,
       tie \in TieOrders :
        LET r == retrieve_from_file(Store, query, file_id, RAG_TOP_K,
                                    RAG_MIN_SIMILARITY, TRUE, openai, tie)
        IN  /\ SetStore(r.store)
            /\ UNCHANGED cvars
            /\ last' = [op |-> "retrieve_from_file"]
            /\ UNCHANGED io_failures

\* retrieve_all_available with the default total, twice the configured
\* top_k.  The store the call leaves does not depend on the texts of the
\* metadata, so one assignment is taken.
RetrieveAllAvailable ==
    \E query \in AllQueryTexts, openai \in OpenAIOutcomes, tie \in TieOrders,
       listing \in DirectoryOrders :
        LET r == retrieve_all_available(Store, query, RAG_TOP_K * 2, RAG_MIN_SIMILARITY,
                                        TRUE, openai, tie, listing,
                                        CHOOSE text_of \in TextAssignments : TRUE)
        IN  /\ SetStore(r.store)
            /\ UNCHANGED cvars
            /\ last' = [op |-> "retrieve_all_available"]
            /\ UNCHANGED io_failures

NextRetrieval ==
    \/ AddVectorsBrief
    \/ DeleteIndexBrief
    \/ ClearCache
    \/ SearchMultipleFiles
    \/ RetrieveFromMultipleFiles

SpecRetrieval == Init /\ [][NextRetrieval]_vars

\* The single-file retrieval and the retrieval over every listed index, on
\* the same stores.
NextRetrieveAll ==
    \/ AddVectorsBrief
    \/ DeleteIndexBrief
    \/ ClearCache
    \/ RetrieveFromFile
    \/ RetrieveAllAvailable

SpecRetrieveAll == Init /\ [][NextRetrieveAll]_vars

(***************************************************************************)
(* Request threads on the one VectorStore of the process.  A call is a run *)
(* of steps, one per statement that reads or writes the shared cache       *)
(* dictionaries, an index object or an artifact; statements on locals are  *)
(* joined to the step before them.  A cached index is a reference: the     *)
(* index.add of one thread is seen by every thread that holds the object.  *)
(* The steps of one index.add, index.search, write or read are taken as    *)
(* atomic.  Here index_cache stays empty and index_ref with heap stand for *)
(* self.index_cache.                                                       *)
(***************************************************************************)
\* The segments the threads add: one per call, all of one dimension.
ThreadSegments == {"s1", "s2"}

\* The query, top_k and tie order of the searches of the threads.
ThreadQuery == <<1, 0>>

AddsMade == thread["t1"].adds + thread["t2"].adds

\* The store the threads share, as the method operators take it.
SharedStore ==
    [index_cache |-> [f \in DOMAIN index_ref |-> heap[index_ref[f]]],
     metadata_cache |-> metadata_cache,
     faiss_file |-> faiss_file, metadata_file |-> metadata_file]

\* Thread t enters a call.
Call(t, op, file_id, segment_id) ==
    [thread EXCEPT ![t] =
        [Idle(@.calls + 1, @.adds + (IF op = "add_vectors" THEN 1 ELSE 0))
            EXCEPT !.pc = "lookup", !.op = op, !.file_id = file_id,
                   !.segment_id = segment_id]]

\* Thread t leaves its call with ret; the record keeps what the call was.
Return(t, ret) ==
    [thread EXCEPT ![t] = [@ EXCEPT !.pc = "idle", !.ret = <<ret>>]]

\* The value an exception inside the call makes it return: add_vectors and
\* delete_index False, search the empty list.
Raised(t) ==
    IF thread[t].op = "search"
    THEN [index |-> create_index(0), metadata |-> <<>>, results |-> <<>>]
    ELSE FALSE

At(t, pc) == thread[t].pc = pc

\* Another thread is inside add_vectors or delete_index of file_id.
WriterOn(t, file_id) ==
    \E u \in Threads \ {t} :
        /\ thread[u].pc # "idle"
        /\ thread[u].op \in {"add_vectors", "delete_index"}
        /\ thread[u].file_id = file_id

\* add_vectors is called with one embedded segment (the length checks pass).
BeginAddVectors ==
    \E t \in Threads, file_id \in FileIds, segment_id \in ThreadSegments :
        /\ At(t, "idle") /\ thread[t].calls < MaxCalls /\ AddsMade < MaxVectors
        /\ thread' = Call(t, "add_vectors", file_id, segment_id)
        /\ UNCHANGED <<index_cache, metadata_cache, faiss_file, metadata_file, last,
                       io_failures, heap, index_ref, added>>

\* The same when the callers run one write per file_id at a time.
BeginAddVectorsAlone ==
    \E t \in Threads, file_id \in FileIds, segment_id \in ThreadSegments :
        /\ At(t, "idle") /\ thread[t].calls < MaxCalls /\ AddsMade < MaxVectors
        /\ ~WriterOn(t, file_id)
        /\ thread' = Call(t, "add_vectors", file_id, segment_id)
        /\ UNCHANGED <<index_cache, metadata_cache, faiss_file, metadata_file, last,
                       io_failures, heap, index_ref, added>>

BeginSearch ==
    \E t \in Threads, file_id \in FileIds :
        /\ At(t, "idle") /\ thread[t].calls < MaxCalls
        /\ thread' = Call(t, "search", file_id, "")
        /\ UNCHANGED <<index_cache, metadata_cache, faiss_file, metadata_file, last,
                       io_failures, heap, index_ref, added>>

\* if file_id in self.index_cache
Lookup ==
    \E t \in Threads :
        /\ At(t, "lookup")
        /\ thread' = [thread EXCEPT ![t].pc =
                         IF thread[t].file_id \in DOMAIN index_ref THEN "get_index"
                         ELSE IF thread[t].op = "add_vectors" THEN "exists"
                         ELSE "read_index"]
        /\ UNCHANGED <<index_cache, metadata_cache, faiss_file, metadata_file, last,
                       io_failures, heap, index_ref, added>>

\* index = self.index_cache[file_id]
GetCachedIndex ==
    \E t \in Threads :
        /\ At(t, "get_index")
        /\ thread' = IF thread[t].file_id \in DOMAIN index_ref
                     THEN [thread EXCEPT ![t].pc = "get_metadata",
                                         ![t].index = index_ref[thread[t].file_id]]
                     ELSE Return(t, Raised(t))
        /\ UNCHANGED <<index_cache, metadata_cache, faiss_file, metadata_file, last,
                       io_failures, heap, index_ref, added>>

\* existing_metadata = self.metadata_cache[file_id]
GetCachedMetadata ==
    \E t \in Threads :
        /\ At(t, "get_metadata")
        /\ thread' = IF thread[t].file_id \in DOMAIN metadata_cache
                     THEN [thread EXCEPT
                              ![t].pc = IF thread[t].op = "search" THEN "search" ELSE "add",
                              ![t].metadata = metadata_cache[thread[t].file_id]]
                     ELSE Return(t, Raised(t))
        /\ UNCHANGED <<index_cache, metadata_cache, faiss_file, metadata_file, last,
                       io_failures, heap, index_ref, added>>

\* if self.index_exists(file_id): load_index, else create_index and []
ExistsOrCreate ==
    \E t \in Threads :
        /\ At(t, "exists")
        /\ IF index_exists(SharedStore, thread[t].file_id)
           THEN /\ thread' = [thread EXCEPT ![t].pc = "read_index"]
                /\ UNCHANGED heap
           ELSE /\ heap' = Append(heap, create_index(Len(Embedding(thread[t].segment_id))))
                /\ thread' = [thread EXCEPT ![t].pc = "add", ![t].index = Len(heap) + 1,
                                            ![t].metadata = <<>>]
        /\ UNCHANGED <<index_cache, metadata_cache, faiss_file, metadata_file, last,
                       io_failures, index_ref, added>>

\* load_index: the existence test and faiss.read_index
ReadIndex ==
    \E t \in Threads :
        /\ At(t, "read_index")
        /\ IF thread[t].file_id \in DOMAIN faiss_file
           THEN /\ heap' = Append(heap, faiss_file[thread[t].file_id])
                /\ thread' = [thread EXCEPT ![t].pc = "read_metadata",
                                            ![t].index = Len(heap) + 1]
           ELSE /\ thread' = Return(t, Raised(t))
                /\ UNCHANGED heap
        /\ UNCHANGED <<index_cache, metadata_cache, faiss_file, metadata_file, last,
                       io_failures, index_ref, added>>

\* load_index: json.load of the metadata artifact, [] when it is missing
ReadMetadata ==
    \E t \in Threads :
        /\ At(t, "read_metadata")
        /\ thread' = [thread EXCEPT
                         ![t].pc = "cache_loaded_index",
                         ![t].metadata =
                             IF thread[t].file_id \in DOMAIN metadata_file
                             THEN json_load(metadata_file[thread[t].file_id])
                             ELSE <<>>]
        /\ UNCHANGED <<index_cache, metadata_cache, faiss_file, metadata_file, last,
                       io_failures, heap, index_ref, added>>

\* load_index: self.index_cache[file_id] = index
CacheLoadedIndex ==
    \E t \in Threads :
        /\ At(t, "cache_loaded_index")
        /\ index_ref' = With(index_ref, thread[t].file_id, thread[t].index)
        /\ thread' = [thread EXCEPT ![t].pc = "cache_loaded_metadata"]
        /\ UNCHANGED <<index_cache, metadata_cache, faiss_file, metadata_file, last,
                       io_failures, heap, added>>

\* load_index: self.metadata_cache[file_id] = metadata
CacheLoadedMetadata ==
    \E t \in Threads :
        /\ At(t, "cache_loaded_metadata")
        /\ metadata_cache' = With(metadata_cache, thread[t].file_id, thread[t].metadata)
        /\ thread' = [thread EXCEPT
                         ![t].pc = IF thread[t].op = "search" THEN "search" ELSE "add"]
        /\ UNCHANGED <<index_cache, faiss_file, metadata_file, last,
                       io_failures, heap, index_ref, added>>

\* index.add(embeddings_f32); updated_metadata = existing_metadata + metadata
IndexAdd ==
    \E t \in Threads :
        /\ At(t, "add")
        /\ LET embeddings == <<Embedding(thread[t].segment_id)>>
               index == heap[thread[t].index]
           IN  IF Len(embeddings[1]) # index.d
               THEN /\ thread' = Return(t, FALSE)
                    /\ UNCHANGED heap
               ELSE /\ heap' = [heap EXCEPT ![thread[t].index] = index_add(index, embeddings)]
                    /\ thread' = [thread EXCEPT
                                     ![t].pc = "cache_index",
                                     ![t].metadata = concat_metadata(
                                         @, <<[segment_id |-> thread[t].segment_id]>>)]
        /\ UNCHANGED <<index_cache, metadata_cache, faiss_file, metadata_file, last,
                       io_failures, index_ref, added>>

\* self.index_cache[file_id] = index
CacheIndex ==
    \E t \in Threads :
        /\ At(t, "cache_index")
        /\ index_ref' = With(index_ref, thread[t].file_id, thread[t].index)
        /\ thread' = [thread EXCEPT ![t].pc = "cache_metadata"]
        /\ UNCHANGED <<index_cache, metadata_cache, faiss_file, metadata_file, last,
                       io_failures, heap, added>>

\* A store that appends the call's record to the list cached at that moment.
CacheMetadataMerged ==
    \E t \in Threads :
        /\ At(t, "cache_metadata")
        /\ metadata_cache' =
               With(metadata_cache, thread[t].file_id,
                    (IF thread[t].file_id \in DOMAIN metadata_cache
                     THEN metadata_cache[thread[t].file_id] ELSE <<>>)
                        \o <<[segment_id |-> thread[t].segment_id]>>)
        /\ thread' = [thread EXCEPT ![t].pc = "write_index"]
        /\ UNCHANGED <<index_cache, faiss_file, metadata_file, last,
                       io_failures, heap, index_ref, added>>

\* self.metadata_cache[file_id] = updated_metadata
CacheMetadata ==
    \E t \in Threads :
        /\ At(t, "cache_metadata")
        /\ metadata_cache' = With(metadata_cache, thread[t].file_id, thread[t].metadata)
        /\ thread' = [thread EXCEPT ![t].pc = "write_index"]
        /\ UNCHANGED <<index_cache, faiss_file, metadata_file, last,
                       io_failures, heap, index_ref, added>>

\* add_vectors returns True: the history takes the segment.
ReturnTrue(t) ==
    /\ thread' = Return(t, add_result([ok |-> TRUE]))
    /\ added' = [added EXCEPT ![thread[t].file_id] = Append(@, thread[t].segment_id)]

\* save_index: faiss.write_index; when it raises, save_index returns False
\* and add_vectors True.
WriteIndex ==
    \E t \in Threads, io \in {"ok", "write_index_fails"} :
        /\ At(t, "write_index")
        /\ io = "ok" \/ io_failures < MaxIoFailures
        /\ IF io = "ok"
           THEN /\ faiss_file' = With(faiss_file, thread[t].file_id, heap[thread[t].index])
                /\ thread' = [thread EXCEPT ![t].pc = "write_metadata"]
                /\ UNCHANGED <<io_failures, added>>
           ELSE /\ ReturnTrue(t)
                /\ io_failures' = io_failures + 1
                /\ UNCHANGED faiss_file
        /\ UNCHANGED <<index_cache, metadata_cache, metadata_file, last, heap, index_ref>>

\* save_index: json.dump of the metadata; add_vectors returns True.
WriteMetadata ==
    \E t \in Threads, io \in {"ok", "write_metadata_fails"} :
        /\ At(t, "write_metadata")
        /\ io = "ok" \/ io_failures < MaxIoFailures
        /\ IF io = "ok"
           THEN /\ metadata_file' = With(metadata_file, thread[t].file_id,
                                         json_dump(thread[t].metadata))
                /\ UNCHANGED io_failures
           ELSE /\ io_failures' = io_failures + 1
                /\ UNCHANGED metadata_file
        /\ ReturnTrue(t)
        /\ UNCHANGED <<index_cache, metadata_cache, faiss_file, last, heap, index_ref>>

\* search: the ntotal test, index.search on the object as it is now and the
\* results built with the metadata list the thread holds.
SearchIndex ==
    \E t \in Threads :
        /\ At(t, "search")
        /\ LET index == heap[thread[t].index]
               metadata == thread[t].metadata
               results ==
                   IF ntotal(index) = 0 \/ Len(ThreadQuery) # index.d THEN <<>>
                   ELSE build_results(index, ThreadQuery,
                            index_search(index, ThreadQuery,
                                         Min(DefaultTopK, ntotal(index)), "asc"),
                            metadata)
           IN  thread' = Return(t, [index |-> index, metadata |-> metadata,
                                    results |-> results])
        /\ UNCHANGED <<index_cache, metadata_cache, faiss_file, metadata_file, last,
                       io_failures, heap, index_ref, added>>

NextThreads ==
    \/ BeginAddVectors
    \/ BeginSearch
    \/ Lookup
    \/ GetCachedIndex
    \/ GetCachedMetadata
    \/ ExistsOrCreate
    \/ ReadIndex
    \/ ReadMetadata
    \/ CacheLoadedIndex
    \/ CacheLoadedMetadata
    \/ IndexAdd
    \/ CacheIndex
    \/ CacheMetadata
    \/ WriteIndex
    \/ WriteMetadata
    \/ SearchIndex

SpecThreads == Init /\ [][NextThreads]_vars

\* delete_index is called while no other write on file_id runs.
BeginDeleteIndexAlone ==
    \E t \in Threads, file_id \in FileIds :
        /\ At(t, "idle") /\ thread[t].calls < MaxCalls
        /\ ~WriterOn(t, file_id)
        /\ thread' = [Call(t, "delete_index", file_id, "") EXCEPT ![t].pc = "uncache_index"]
        /\ UNCHANGED <<index_cache, metadata_cache, faiss_file, metadata_file, last,
                       io_failures, heap, index_ref, added>>

\* if file_id in self.index_cache: del self.index_cache[file_id]
UncacheIndex ==
    \E t \in Threads :
        /\ At(t, "uncache_index")
        /\ index_ref' = Without(index_ref, thread[t].file_id)
        /\ thread' = [thread EXCEPT ![t].pc = "uncache_metadata"]
        /\ UNCHANGED <<index_cache, metadata_cache, faiss_file, metadata_file, last,
                       io_failures, heap, added>>

\* if file_id in self.metadata_cache: del self.metadata_cache[file_id]
UncacheMetadata ==
    \E t \in Threads :
        /\ At(t, "uncache_metadata")
        /\ metadata_cache' = Without(metadata_cache, thread[t].file_id)
        /\ thread' = [thread EXCEPT ![t].pc = "remove_index"]
        /\ UNCHANGED <<index_cache, faiss_file, metadata_file, last,
                       io_failures, heap, index_ref, added>>

\* os.remove of the index artifact when it exists
RemoveIndex ==
    \E t \in Threads :
        /\ At(t, "remove_index")
        /\ faiss_file' = Without(faiss_file, thread[t].file_id)
        /\ thread' = [thread EXCEPT ![t].pc = "remove_metadata"]
        /\ UNCHANGED <<index_cache, metadata_cache, metadata_file, last,
                       io_failures, heap, index_ref, added>>

\* os.remove of the metadata artifact when it exists; delete_index returns
\* True and the history of the file_id starts again.
RemoveMetadata ==
    \E t \in Threads :
        /\ At(t, "remove_metadata")
        /\ metadata_file' = Without(metadata_file, thread[t].file_id)
        /\ thread' = Return(t, TRUE)
        /\ added' = [added EXCEPT ![thread[t].file_id] = <<>>]
        /\ UNCHANGED <<index_cache, metadata_cache, faiss_file, last,
                       io_failures, heap, index_ref>>

\* A process that starts on a directory where earlier runs left, for some
\* file ids, an index of one vector with its metadata.
InitRestarted ==
    \E kept \in SUBSET FileIds :
        /\ index_cache = EmptyDict
        /\ metadata_cache = EmptyDict
        /\ faiss_file = [f \in kept |-> index_add(create_index(2), EmbeddingsOf(<<"s1">>))]
        /\ metadata_file = [f \in kept |-> json_dump(MetadataOf(<<"s1">>))]
        /\ last = [op |-> "init"]
        /\ io_failures = 0
        /\ heap = <<>>
        /\ index_ref = EmptyDict
        /\ thread = [t \in Threads |-> Idle(0, 0)]
        /\ added = [f \in FileIds |-> IF f \in kept THEN <<"s1">> ELSE <<>>]

\* The threads when the callers run at most one add_vectors or delete_index
\* call per file_id at a time.
NextDisciplined ==
    \/ BeginAddVectorsAlone
    \/ BeginDeleteIndexAlone
    \/ Lookup
    \/ GetCachedIndex
    \/ GetCachedMetadata
    \/ ExistsOrCreate
    \/ ReadIndex
    \/ ReadMetadata
    \/ CacheLoadedIndex
    \/ CacheLoadedMetadata
    \/ IndexAdd
    \/ CacheIndex
    \/ CacheMetadata
    \/ WriteIndex
    \/ WriteMetadata
    \/ UncacheIndex
    \/ UncacheMetadata
    \/ RemoveIndex
    \/ RemoveMetadata

SpecDisciplined == InitRestarted /\ [][NextDisciplined]_vars

(***************************************************************************)
(* RetrieverService.format_context_for_rag, on result lists given by the   *)
(* texts of their metadata.  A string is the sequence of its characters;   *)
(* the number of an entry is one character.                                *)
(***************************************************************************)
\* The result lists: up to three results whose texts have up to
\* MaxTextLength characters.
ContextResults ==
    BSeq({[n \in 1..k |-> "a"] : k \in 0..MaxTextLength}, 3)

\* "\\n\\n".join(context_parts): the separator as the source writes it, a
\* backslash and an n, twice.
RECURSIVE join(_)
join(context_parts) ==
    IF context_parts = <<>> THEN <<>>
    ELSE IF Len(context_parts) = 1 THEN context_parts[1]
    ELSE context_parts[1] \o <<"\\", "n", "\\", "n">> \o join(Tail(context_parts))

\* The loop over the results from position i on: the entry "i. text" is
\* appended unless it takes current_length over max_length, which ends the
\* loop.
RECURSIVE context_parts_from(_, _, _, _)
context_parts_from(texts, i, current_length, max_length) ==
    IF i > Len(texts) THEN <<>>
    ELSE LET context_text == <<i, ".", " ">> \o texts[i]
         IN  IF current_length + Len(context_text) > max_length
             THEN <<>>
             ELSE <<context_text>>
                      \o context_parts_from(texts, i + 1,
                                            current_length + Len(context_text), max_length)

\* The formatted context and the number of cited segments; the fixed
\* sentence when there is no result.
format_context_for_rag(texts, max_length) ==
    IF texts = <<>>
    THEN [context |-> <<"no", "results">>, cited |-> 0]
    ELSE LET context_parts == context_parts_from(texts, 1, 0, max_length)
         IN  [context |-> join(context_parts), cited |-> Len(context_parts)]

InitContext ==
    /\ index_cache = EmptyDict
    /\ metadata_cache = EmptyDict
    /\ faiss_file = EmptyDict
    /\ metadata_file = EmptyDict
    /\ io_failures = 0
    /\ heap = <<>>
    /\ index_ref = EmptyDict
    /\ thread = [t \in Threads |-> Idle(0, 0)]
    /\ added = [f \in FileIds |-> <<>>]
    /\ \E texts \in ContextResults : last = [op |-> "results", texts |-> texts]

FormatContextForRag ==
    \E max_length \in 0..MaxContextLength :
        /\ last' = [op |-> "format_context_for_rag", texts |-> last.texts,
                    max_length |-> max_length,
                    ret |-> format_context_for_rag(last.texts, max_length)]
        /\ UNCHANGED <<index_cache, metadata_cache, faiss_file, metadata_file,
                       io_failures, heap, index_ref, thread, added>>

SpecContext == InitContext /\ [][FormatContextForRag]_vars

(***************************************************************************)
(* SegmentationService.  A text is the sequence of its characters: "a" a    *)
(* letter, " " a space, "\n" a newline, "!" a sentence end (one of the four *)
(* the source names), "1" a digit and "." a dot.  The lengths of the        *)
(* configuration are scaled down (50, 300, 500, 50 in the source) and keep  *)
(* their order.                                                            *)
(***************************************************************************)
min_segment_length == 2
target_segment_length == 3
max_segment_length == 4
overlap_length == 2

\* The documents: up to MaxPieces pieces, each a word, a sentence end, a
\* space, a blank line or a newline before a numbered marker.
Documents ==
    LET Pieces == {<<"a">>, <<"a", "a">>, <<"!">>, <<" ">>, <<"\n", "\n">>,
                   <<"\n", "1", ".">>}
        Flat[pieces \in BSeq(Pieces, MaxPieces)] ==
            IF pieces = <<>> THEN <<>> ELSE Head(pieces) \o Flat[Tail(pieces)]
    IN  {Flat[pieces] : pieces \in BSeq(Pieces, MaxPieces)}

\* What uuid4 may give in n successive calls.
UuidDraws(n) == [1..n -> {"u1", "u2"}]

IsSpace(c) == c \in {" ", "\n"}

\* str.strip()
RECURSIVE strip(_)
strip(text) ==
    IF text = <<>> THEN <<>>
    ELSE IF IsSpace(Head(text)) THEN strip(Tail(text))
    ELSE IF IsSpace(text[Len(text)]) THEN strip(SubSeq(text, 1, Len(text) - 1))
    ELSE text

\* re.sub(r'\s+', ' ', text): every run of whitespace becomes one space.
RECURSIVE collapse_whitespace(_)
collapse_whitespace(text) ==
    IF text = <<>> THEN <<>>
    ELSE IF IsSpace(Head(text))
         THEN IF Len(text) > 1 /\ IsSpace(text[2])
              THEN collapse_whitespace(Tail(text))
              ELSE <<" ">> \o collapse_whitespace(Tail(text))
         ELSE <<Head(text)>> \o collapse_whitespace(Tail(text))

\* _clean_text: the whitespace runs are collapsed first, so the two
\* substitutions of line ends that follow find nothing; then strip.
clean_text(text) == strip(collapse_whitespace(text))

\* text.split('\n\n'), from the part current that is being read.
RECURSIVE split_blank_lines(_, _)
split_blank_lines(text, current) ==
    IF text = <<>> THEN <<current>>
    ELSE IF Len(text) >= 2 /\ text[1] = "\n" /\ text[2] = "\n"
         THEN <<current>> \o split_blank_lines(SubSeq(text, 3, Len(text)), <<>>)
         ELSE split_blank_lines(Tail(text), Append(current, Head(text)))

\* re.split at every newline that a numbered marker follows; the newline is
\* dropped.
RECURSIVE split_before_markers(_, _)
split_before_markers(text, current) ==
    IF text = <<>> THEN <<current>>
    ELSE IF Len(text) >= 3 /\ text[1] = "\n" /\ text[2] = "1" /\ text[3] = "."
         THEN <<current>> \o split_before_markers(Tail(text), <<>>)
         ELSE split_before_markers(Tail(text), Append(current, Head(text)))

\* The stripped parts of at least min_segment_length characters.
long_parts(parts) ==
    SelectSeq([i \in 1..Len(parts) |-> strip(parts[i])],
              LAMBDA part : Len(part) >= min_segment_length)

\* The characters at which _split_by_fixed_length looks for a sentence
\* boundary, and those of the pattern of _intelligent_split_paragraph.
IsBoundary(c) == c \in {"!", "\n"}
IsSentenceEnd(c) == c = "!"

\* text[start:end], with Python's 0-based bounds and clipping.
Slice(text, start, end) == SubSeq(text, start + 1, Min(end, Len(text)))

\* An iteration of the while loop of _split_by_fixed_length with a scan that
\* runs down to start and cuts before the boundary it finds.
window_end_before_boundary(text, start, max_length) ==
    LET end == start + max_length
        found == {i \in start..Min(end, Len(text) - 1) : IsBoundary(text[i + 1])}
    IN  IF end < Len(text) /\ found # {}
        THEN CHOOSE i \in found : \A j \in found : j <= i
        ELSE end

\* One iteration of the while loop of _split_by_fixed_length: the end of the
\* window that starts at start.  The scan runs down from
\* min(end, len(text) - 1) to start + max_length // 2, exclusive.
window_end(text, start, max_length) ==
    LET end == start + max_length
        found == {i \in (start + (max_length \div 2) + 1)..Min(end, Len(text) - 1) :
                      IsBoundary(text[i + 1])}
    IN  IF end < Len(text) /\ found # {}
        THEN (CHOOSE i \in found : \A j \in found : j <= i) + 1
        ELSE end

RECURSIVE fixed_length_from(_, _, _)
fixed_length_from(text, start, max_length) ==
    IF start >= Len(text) THEN <<>>
    ELSE LET end == window_end(text, start, max_length)
             segment == strip(Slice(text, start, end))
         IN  (IF Len(segment) >= min_segment_length THEN <<segment>> ELSE <<>>)
                 \o fixed_length_from(text, end, max_length)

split_by_fixed_length(text, max_length) == fixed_length_from(text, 0, max_length)

\* _split_by_natural_paragraphs: the parts between blank lines, then (two
\* paragraphs or fewer) the parts before numbered markers added to them, then
\* (still two or fewer) the windows of fixed length instead.
split_by_natural_paragraphs(text) ==
    LET method1 == long_parts(split_blank_lines(text, <<>>))
        method2 == IF Len(method1) <= 2
                   THEN method1 \o long_parts(split_before_markers(text, <<>>))
                   ELSE method1
        paragraphs == IF Len(method2) <= 2
                      THEN split_by_fixed_length(text, max_segment_length)
                      ELSE method2
    IN  SelectSeq(paragraphs, LAMBDA p : Len(strip(p)) >= min_segment_length)

\* re.split(r'([!]\s*)', paragraph): the texts between the sentence ends,
\* alternating with the sentence ends and the whitespace after them.
RECURSIVE re_split_sentences(_, _)
re_split_sentences(text, current) ==
    IF text = <<>> THEN <<current>>
    ELSE IF IsSentenceEnd(Head(text))
         THEN LET spaces == CHOOSE n \in 0..(Len(text) - 1) :
                                /\ \A k \in 2..(n + 1) : IsSpace(text[k])
                                /\ (n + 2 <= Len(text) => ~IsSpace(text[n + 2]))
              IN  <<current, SubSeq(text, 1, spaces + 1)>>
                      \o re_split_sentences(SubSeq(text, spaces + 2, Len(text)), <<>>)
         ELSE re_split_sentences(Tail(text), Append(current, Head(text)))

\* Whether the loop of _intelligent_split_paragraph joins sentences[i + 1]
\* to sentences[i] (0-based i): re.match of the sentence end at its start.
joins_next(sentences, i) ==
    /\ i < Len(sentences) - 1
    /\ sentences[i + 2] # <<>>
    /\ IsSentenceEnd(Head(sentences[i + 2]))

\* The index after one iteration of that loop.
next_index(sentences, i) == IF joins_next(sentences, i) THEN i + 2 ELSE i + 1

RECURSIVE sentence_loop(_, _, _, _)
sentence_loop(sentences, i, segments, current_segment) ==
    IF i >= Len(sentences)
    THEN IF Len(strip(current_segment)) >= min_segment_length
         THEN Append(segments, strip(current_segment))
         ELSE segments
    ELSE LET sentence == IF joins_next(sentences, i)
                         THEN sentences[i + 1] \o sentences[i + 2]
                         ELSE sentences[i + 1]
             current_length == Len(current_segment)
         IN  IF /\ current_length + Len(sentence) > target_segment_length
                /\ current_segment # <<>>
                /\ current_length >= min_segment_length
             THEN sentence_loop(sentences, next_index(sentences, i),
                                Append(segments, strip(current_segment)), sentence)
             ELSE sentence_loop(sentences, next_index(sentences, i),
                                segments, current_segment \o sentence)

intelligent_split_paragraph(paragraph) ==
    sentence_loop(re_split_sentences(paragraph, <<>>), 0, <<>>, <<>>)

\* The segments before the overlapping ones are added.
RECURSIVE base_segments_of(_)
base_segments_of(paragraphs) ==
    IF paragraphs = <<>> THEN <<>>
    ELSE LET paragraph == Head(paragraphs)
         IN  (IF Len(paragraph) <= max_segment_length
              THEN IF Len(paragraph) >= min_segment_length
                   THEN <<paragraph>> ELSE <<>>
              ELSE intelligent_split_paragraph(paragraph))
                 \o base_segments_of(Tail(paragraphs))

base_segments(text) == base_segments_of(split_by_natural_paragraphs(text))

\* The overlapping segment built from two neighbours, before it is stripped.
overlap_segment(segment, next_segment) ==
    Slice(segment, IF Len(segment) > overlap_length
                   THEN Len(segment) - overlap_length ELSE 0, Len(segment))
        \o <<" ">> \o Slice(next_segment, 0, Min(Len(next_segment), overlap_length))

RECURSIVE overlapping_from(_, _)
overlapping_from(segments, i) ==
    IF i >= Len(segments) THEN <<>>
    ELSE LET overlap == IF i < Len(segments) - 1 /\ i % 2 = 0
                        THEN overlap_segment(segments[i + 1], segments[i + 2])
                        ELSE <<>>
         IN  <<segments[i + 1]>>
                 \o (IF i < Len(segments) - 1 /\ i % 2 = 0
                        /\ Len(strip(overlap)) >= min_segment_length
                     THEN <<strip(overlap)>> ELSE <<>>)
                 \o overlapping_from(segments, i + 1)

add_overlapping_segments(segments) ==
    IF Len(segments) <= 1 THEN segments ELSE overlapping_from(segments, 0)

split_text_into_segments(text) == add_overlapping_segments(base_segments(text))

\* The same loop without the test of the length.
RECURSIVE segment_data_unfiltered(_, _, _, _, _)
segment_data_unfiltered(file_id, segments, i, uuids, drawn) ==
    IF i >= Len(segments) THEN <<>>
    ELSE <<[segment_id |-> <<file_id, i + 1, uuids[drawn + 1]>>,
            order |-> i + 1,
            text |-> strip(segments[i + 1])]>>
             \o segment_data_unfiltered(file_id, segments, i + 1, uuids, drawn + 1)

\* The loop of segment_document over the segments, from index i (0-based);
\* drawn counts the calls of uuid4 made so far.
RECURSIVE segment_data_from(_, _, _, _, _)
segment_data_from(file_id, segments, i, uuids, drawn) ==
    IF i >= Len(segments) THEN <<>>
    ELSE IF Len(strip(segments[i + 1])) < min_segment_length
         THEN segment_data_from(file_id, segments, i + 1, uuids, drawn)
         ELSE <<[segment_id |-> <<file_id, i + 1, uuids[drawn + 1]>>,
                 order |-> i + 1,
                 text |-> strip(segments[i + 1])]>>
                  \o segment_data_from(file_id, segments, i + 1, uuids, drawn + 1)

segment_document(file_id, text_content, uuids) ==
    segment_data_from(file_id, split_text_into_segments(clean_text(text_content)),
                      0, uuids, 0)

\* A document is handed over, then segmented; the store is not involved.
InitSegment ==
    /\ index_cache = EmptyDict
    /\ metadata_cache = EmptyDict
    /\ faiss_file = EmptyDict
    /\ metadata_file = EmptyDict
    /\ io_failures = 0
    /\ heap = <<>>
    /\ index_ref = EmptyDict
    /\ thread = [t \in Threads |-> Idle(0, 0)]
    /\ added = [f \in FileIds |-> <<>>]
    /\ \E text \in Documents : last = [op |-> "document", text |-> text]

SegmentDocument ==
    /\ last.op = "document"
    /\ \E uuids \in UuidDraws(Len(split_text_into_segments(clean_text(last.text)))) :
           last' = [op |-> "segment_document", text |-> last.text,
                    ret |-> segment_document("f1", last.text, uuids)]
    /\ UNCHANGED <<index_cache, metadata_cache, faiss_file, metadata_file,
                   io_failures, heap, index_ref, thread, added>>

SpecSegment == InitSegment /\ [][SegmentDocument]_vars

(***************************************************************************)
(* The two loops of the segmentation, one iteration a step: the while loop  *)
(* of _split_by_fixed_length over the window start, then the while loop of  *)
(* _intelligent_split_paragraph over the index of the sentences.  Neither   *)
(* loop waits for anything, so an iteration that can run does run.         *)
(***************************************************************************)
InitLoops ==
    /\ index_cache = EmptyDict
    /\ metadata_cache = EmptyDict
    /\ faiss_file = EmptyDict
    /\ metadata_file = EmptyDict
    /\ io_failures = 0
    /\ heap = <<>>
    /\ index_ref = EmptyDict
    /\ thread = [t \in Threads |-> Idle(0, 0)]
    /\ added = [f \in FileIds |-> <<>>]
    /\ \E text \in Documents, max_length \in 1..max_segment_length :
           last = [op |-> "split_by_fixed_length", text |-> text,
                   max_length |-> max_length, start |-> 0, snapped |-> FALSE,
                   sentences |-> re_split_sentences(text, <<>>), i |-> 0,
                   joined |-> FALSE]

\* while start < len(text): ...; start = end
WindowStep ==
    /\ last.op = "split_by_fixed_length"
    /\ IF last.start < Len(last.text)
       THEN LET end == window_end(last.text, last.start, last.max_length)
            IN  last' = [last EXCEPT !.start = end,
                                     !.snapped = @ \/ end # last.start + last.max_length]
       ELSE last' = [last EXCEPT !.op = "intelligent_split_paragraph"]
    /\ UNCHANGED <<index_cache, metadata_cache, faiss_file, metadata_file,
                   io_failures, heap, index_ref, thread, added>>

\* while i < len(sentences): ...; i += 1
SentenceStep ==
    /\ last.op = "intelligent_split_paragraph"
    /\ IF last.i < Len(last.sentences)
       THEN last' = [last EXCEPT !.i = next_index(last.sentences, last.i),
                                 !.joined = @ \/ joins_next(last.sentences, last.i)]
       ELSE last' = [last EXCEPT !.op = "return"]
    /\ UNCHANGED <<index_cache, metadata_cache, faiss_file, metadata_file,
                   io_failures, heap, index_ref, thread, added>>

NextLoops == WindowStep \/ SentenceStep

SpecLoops == InitLoops /\ [][NextLoops]_vars /\ WF_vars(NextLoops)

(***************************************************************************)
(* The entry points of retrieval and search: the route handlers, with the   *)
(* controller and service calls they make.  A file id is taken as it is     *)
(* given (_resolve_file_id returns it when no parse record names another).  *)
(* last keeps what the handler answered and the calls it made.             *)
(***************************************************************************)
\* The fields of a request body: a query that is empty, blank or a text; a
\* list of file ids that may be empty or hold an empty id; a top_k below,
\* inside and above the ranges the handlers name.  The store that a search
\* leaves depends neither on the order among equal scores, nor on what the
\* embedding API answers, nor on the order of the directory entries, so one
\* of each is taken.
RequestQueries == {"", " ", "q"}

RequestFileIds == {<<>>, <<"">>, <<"f1">>, <<"f1", "f2">>}

RequestTopKs == {0, 1, 101}

\* not query.strip()
IsBlank(query) == query \in {"", " "}

\* What last keeps of a request and of its handling.
Handled(op, query, file_ids, top_k, rejected, embedding_calls, searches) ==
    [op |-> op, blank_query |-> IsBlank(query),
     empty_file_id |-> \E i \in 1..Len(file_ids) : file_ids[i] = "",
     bad_top_k |-> top_k <= 0, status |-> IF rejected THEN 400 ELSE 200,
     embedding_calls |-> embedding_calls, searches |-> searches]

\* POST /api/qa/rag: the question must not be blank and top_k must be in
\* 1..20; then retrieve_from_multiple_files for the given file ids, or
\* retrieve_all_available when none is given.
RagQa ==
    \E query \in RequestQueries, file_ids \in RequestFileIds, top_k \in RequestTopKs :
        LET rejected == IsBlank(query) \/ top_k <= 0 \/ top_k > 20
            openai == "embedding"
            tie == "asc"
            listing == <<"f1", "f2">>
            store == IF rejected THEN Store
                     ELSE IF file_ids # <<>>
                     THEN retrieve_from_multiple_files(
                              Store, query, file_ids,
                              IF top_k \div Len(file_ids) > 1
                              THEN top_k \div Len(file_ids) ELSE 1,
                              0, TRUE, openai, tie).store
                     ELSE retrieve_all_available(
                              Store, query, top_k, 0, TRUE, openai, tie, listing,
                              CHOOSE text_of \in TextAssignments : TRUE).store
        IN  /\ SetStore(store)
            /\ UNCHANGED cvars
            /\ last' = Handled("rag_qa", query, file_ids, top_k, rejected,
                               IF rejected THEN 0 ELSE 1,
                               IF rejected THEN 0
                               ELSE IF file_ids # <<>> THEN Len(file_ids)
                               ELSE Cardinality(DOMAIN Store.faiss_file))
            /\ UNCHANGED io_failures

\* POST /api/embed/search/<file_id>: the path gives a file id that is not
\* empty; the query must not be blank and top_k must be in 1..100; then
\* EmbeddingController.search_embeddings, which encodes and searches when
\* the index exists.
SearchEmbeddings ==
    \E query \in RequestQueries, file_id \in FileIds, top_k \in RequestTopKs :
        LET rejected == IsBlank(query) \/ top_k <= 0 \/ top_k > 100
            tie == "asc"
            exists == index_exists(Store, file_id)
            store == IF rejected \/ ~exists THEN Store
                     ELSE search(Store, file_id, encode_text(query), top_k, tie).store
        IN  /\ SetStore(store)
            /\ UNCHANGED cvars
            /\ last' = Handled("search_embeddings", query, <<file_id>>, top_k,
                               rejected \/ ~exists,
                               IF rejected \/ ~exists THEN 0 ELSE 1,
                               IF rejected \/ ~exists THEN 0 ELSE 1)
            /\ UNCHANGED io_failures

\* POST /api/embed/search/multi: the query must not be blank and file_ids
\* must be a list that is not empty; then
\* EmbeddingController.search_multiple_files, which encodes the query and
\* searches every file id.
SearchMultipleFilesRoute ==
    \E query \in RequestQueries, file_ids \in RequestFileIds, top_k \in RequestTopKs :
        LET rejected == IsBlank(query) \/ Len(file_ids) = 0
            tie == "asc"
            store == IF rejected THEN Store
                     ELSE search_multiple_files(Store, file_ids, encode_text(query),
                                                top_k, tie).store
        IN  /\ SetStore(store)
            /\ UNCHANGED cvars
            /\ last' = Handled("search_multi", query, file_ids, top_k,
                               rejected,
                               IF rejected THEN 0 ELSE 1,
                               IF rejected THEN 0 ELSE Len(file_ids))
            /\ UNCHANGED io_failures

NextRequests ==
    \/ AddVectorsBrief
    \/ RagQa
    \/ SearchEmbeddings
    \/ SearchMultipleFilesRoute

SpecRequests == Init /\ [][NextRequests]_vars

(***************************************************************************)
(* Building an index for a file, and reading one that the file system      *)
(* cannot give back: faiss.read_index or json.load raises on an artifact    *)
(* that exists (a file cut short or damaged).                              *)
(***************************************************************************)
\* EmbeddingController.create_embeddings for the segments segs that the
\* segment table holds for file_id: an index that exists is kept unless
\* recreate is set; else the segments are encoded, the index is deleted when
\* recreate is set (the result of delete_index is not read), and the vectors
\* are added.  returned = FALSE: the process stopped inside add_vectors.
create_embeddings(S, file_id, recreate, segs, io_delete, io_add) ==
    IF ~recreate /\ index_exists(S, file_id)
    THEN [returned |-> TRUE, success |-> TRUE, created |-> FALSE, failures |-> 0,
          store |-> get_index_info(S, file_id).store]
    ELSE IF segs = <<>>
    THEN [returned |-> TRUE, success |-> FALSE, created |-> FALSE, failures |-> 0,
          store |-> S]
    ELSE LET deleted == IF recreate THEN delete_index(S, file_id, io_delete)
                        ELSE [ret |-> TRUE, failed |-> FALSE, store |-> S]
             a == add_vectors(deleted.store, file_id, EmbeddingsOf(segs),
                              MetadataOf(segs), io_add)
             failures == Failures(deleted.failed) + Failures(a.failed)
         IN  IF ~a.returned
             THEN [returned |-> FALSE, success |-> FALSE, created |-> FALSE,
                   failures |-> failures, store |-> a.store]
             ELSE IF ~a.ret
             THEN [returned |-> TRUE, success |-> FALSE, created |-> FALSE,
                   failures |-> failures, store |-> a.store]
             ELSE [returned |-> TRUE, success |-> TRUE, created |-> TRUE,
                   failures |-> failures,
                   store |-> get_index_info(a.store, file_id).store]

\* POST /api/embed/<file_id>, with the segment table holding no segment,
\* one or two for the file.  An outcome other than "ok" is taken only where
\* the step it names runs and fails.
CreateEmbeddings ==
    \E file_id \in FileIds, recreate \in BOOLEAN,
       segs \in {<<>>, <<"s1">>, <<"s2", "s1">>},
       io_delete \in DeleteOutcomes, io_add \in SaveOutcomes :
        LET r == create_embeddings(Store, file_id, recreate, segs, io_delete, io_add)
        IN  /\ r.failures = Failures(io_delete # "ok") + Failures(io_add # "ok")
            /\ io_failures + r.failures <= MaxIoFailures
            /\ SetStore(r.store)
            /\ UNCHANGED cvars
            /\ last' = [op |-> "create_embeddings", file_id |-> file_id,
                        recreate |-> recreate, segs |-> segs,
                        returned |-> r.returned, success |-> r.success,
                        created |-> r.created, failures |-> r.failures]
            /\ io_failures' = io_failures + r.failures

\* VectorStore.search when the artifacts of file_id read as `read` says:
\* load_index raises on an unreadable artifact, and the except clause of
\* search returns the empty list.  raised says whether the caller gets an
\* exception.
search_reading(S, file_id, query_vector, top_k, tie, read) ==
    IF file_id \notin DOMAIN S.index_cache /\ index_exists(S, file_id)
       /\ read = "unreadable"
    THEN [raised |-> FALSE, ret |-> <<>>, store |-> S]
    ELSE LET r == search(S, file_id, query_vector, top_k, tie)
         IN  [raised |-> FALSE, ret |-> r.ret, store |-> r.store]

\* RetrieverService.retrieve_from_file in the same conditions: get_index_info
\* catches the exception of load_index and answers exists = False, and
\* retrieve_from_file returns the empty list.
retrieve_from_file_reading(S, query, file_id, top_k, min_similarity, use_openai, openai, tie, read) ==
    IF file_id \notin DOMAIN S.index_cache /\ index_exists(S, file_id)
       /\ read = "unreadable"
    THEN [raised |-> FALSE, ret |-> <<>>, store |-> S]
    ELSE LET r == retrieve_from_file(S, query, file_id, top_k, min_similarity,
                                     use_openai, openai, tie)
         IN  [raised |-> FALSE, ret |-> r.ret, store |-> r.store]

SearchReading ==
    \E file_id \in FileIds, query_vector \in QueryVectors,
       read \in {"ok", "unreadable"} :
        LET r == search_reading(Store, file_id, query_vector, DefaultTopK, "asc", read)
        IN  /\ SetStore(r.store)
            /\ UNCHANGED cvars
            /\ last' = [op |-> "search", file_id |-> file_id,
                        unreadable |-> /\ file_id \notin DOMAIN index_cache
                                       /\ index_exists(Store, file_id)
                                       /\ read = "unreadable",
                        raised |-> r.raised, found |-> Len(r.ret)]
            /\ UNCHANGED io_failures

RetrieveFromFileReading ==
    \E file_id \in FileIds, query \in QueryTexts, read \in {"ok", "unreadable"} :
        LET r == retrieve_from_file_reading(Store, query, file_id, RAG_TOP_K,
                                            RAG_MIN_SIMILARITY, TRUE, "embedding",
                                            "asc", read)
        IN  /\ SetStore(r.store)
            /\ UNCHANGED cvars
            /\ last' = [op |-> "retrieve_from_file", file_id |-> file_id,
                        unreadable |-> /\ file_id \notin DOMAIN index_cache
                                       /\ index_exists(Store, file_id)
                                       /\ read = "unreadable",
                        raised |-> r.raised, found |-> Len(r.ret)]
            /\ UNCHANGED io_failures

NextEmbeddings ==
    \/ CreateEmbeddings
    \/ ClearCache
    \/ SearchReading
    \/ RetrieveFromFileReading

SpecEmbeddings == Init /\ [][NextEmbeddings]_vars

(***************************************************************************)
(* Properties.                                                             *)
(***************************************************************************)
\* metadata[i] describes vector i: the lists have one length and row i is
\* the embedding of the segment metadata[i] names.
Aligned(index, metadata) ==
    /\ Len(metadata) = ntotal(index)
    /\ \A i \in 1..ntotal(index) :
          i <= Len(metadata) => index.xb[i] = Embedding(metadata[i].segment_id)

CacheAligned ==
    \A f \in DOMAIN index_cache : Aligned(index_cache[f], metadata_cache[f])

\* What a load from disk gives for every persisted index.
PersistedAligned ==
    \A f \in DOMAIN faiss_file :
        LET l == load_index(Store, f) IN l.ok /\ Aligned(l.index, l.metadata)

IsPrefix(a, b) == Len(a) <= Len(b) /\ SubSeq(b, 1, Len(a)) = a

\* The last call was add_vectors and it returned.
AddReturned == last.op = "add_vectors" /\ last.returned

\* C1: with no I/O failure, after any sequence of add_vectors, search,
\* get_index_info, delete_index and clear_cache calls, every index, cached or
\* reloaded from disk, has as many metadata records as vectors, and
\* metadata[i] is the record passed with vector i.
C1_PositionalAlignment ==
    io_failures = 0 => CacheAligned /\ PersistedAligned

\* Two adds built a cached index of distinct segments and another index is
\* only on disk, with no I/O failure.
C1_Witness ==
    /\ io_failures = 0
    /\ last.op = "get_index_info"
    /\ "f1" \in DOMAIN index_cache
    /\ metadata_cache["f1"] = MetadataOf(<<"s1", "s2">>)
    /\ "f2" \in DOMAIN faiss_file /\ "f2" \notin DOMAIN index_cache
    /\ ntotal(faiss_file["f2"]) = 2

\* C2: the persisted pair of every file_id is aligned at every observable
\* point, also when the process stops between the two writes of save_index
\* or the metadata write fails: an index loaded from disk has as many
\* metadata records as vectors and metadata[i] describes vector i.
C2_PersistedPairAligned == PersistedAligned

\* C3: whenever add_vectors has returned, the persisted artifacts of every
\* cached file_id hold exactly the cached index and metadata list.
C3_WriteThrough ==
    AddReturned =>
        \A f \in DOMAIN index_cache :
            /\ f \in DOMAIN faiss_file /\ faiss_file[f] = index_cache[f]
            /\ f \in DOMAIN metadata_file
            /\ json_load(metadata_file[f]) = metadata_cache[f]

\* C4: add_vectors returns true only if the new vectors and their metadata
\* were persisted; a failed write of either artifact makes it return false.
C4_TrueOnlyIfPersisted ==
    (AddReturned /\ last.ret /\ Len(last.embeddings) > 0) =>
        LET f == last.file_id
            n == Len(last.embeddings)
        IN  /\ f \in DOMAIN faiss_file /\ f \in DOMAIN metadata_file
            /\ ntotal(faiss_file[f]) >= n
            /\ Len(metadata_file[f]) >= n
            /\ SubSeq(faiss_file[f].xb, ntotal(faiss_file[f]) - n + 1,
                      ntotal(faiss_file[f])) = last.embeddings
            /\ SubSeq(metadata_file[f], Len(metadata_file[f]) - n + 1,
                      Len(metadata_file[f])) = json_dump(last.metadata)

\* The rows and the metadata list add_vectors finds for f: the cached pair,
\* else the pair on disk, else nothing.
FoundRows(f) ==
    IF f \in DOMAIN index_cache THEN index_cache[f].xb
    ELSE IF f \in DOMAIN faiss_file THEN faiss_file[f].xb
    ELSE <<>>

FoundMetadata(f) ==
    IF f \in DOMAIN index_cache THEN metadata_cache[f]
    ELSE IF f \in DOMAIN faiss_file /\ f \in DOMAIN metadata_file
         THEN json_load(metadata_file[f])
    ELSE <<>>

\* The number of vectors add_vectors and search find for f.
VectorCount(f) == Len(FoundRows(f))

\* One step of the store: what an add_vectors that returned true leaves, and
\* the vector count of every file_id no delete_index call is about.
AppendStep ==
    /\ (last'.op = "add_vectors" /\ last'.returned /\ last'.ret
            /\ Len(last'.embeddings) > 0) =>
          LET f == last'.file_id
          IN  /\ f \in DOMAIN index_cache'
              /\ index_cache'[f].xb = FoundRows(f) \o last'.embeddings
              /\ metadata_cache'[f] = FoundMetadata(f) \o last'.metadata
    /\ \A f \in FileIds :
          ~(last'.op = "delete_index" /\ last'.file_id = f) =>
              VectorCount(f)' >= VectorCount(f)

\* C5: an add_vectors(f, V, M) that returns true on an index of n vectors and
\* metadata L, found in the cache or only on disk, yields the index of those
\* n vectors followed by V with the metadata L followed by M; and between
\* two delete_index calls the vector count of a file_id never decreases.
C5_AppendOnly == [][AppendStep]_vars

\* The same in the steps without I/O failure so far.
C5_WithoutIoFailure == [][io_failures' = 0 => AppendStep]_vars

\* An index, cached or persisted, never loses or changes a vector or a
\* record unless it is removed as a whole, which for the persisted one only
\* delete_index(f) does.
StoresAppendOnly ==
    [][\A f \in FileIds :
          /\ (f \in DOMAIN faiss_file /\ f \in DOMAIN faiss_file') =>
                IsPrefix(faiss_file[f].xb, faiss_file'[f].xb)
          /\ (f \in DOMAIN metadata_file /\ f \in DOMAIN metadata_file'
                  /\ f \in DOMAIN faiss_file) =>
                IsPrefix(metadata_file[f], metadata_file'[f])
          /\ (f \in DOMAIN index_cache /\ f \in DOMAIN index_cache') =>
                /\ IsPrefix(index_cache[f].xb, index_cache'[f].xb)
                /\ IsPrefix(metadata_cache[f], metadata_cache'[f])
          /\ (f \in DOMAIN faiss_file /\ f \notin DOMAIN faiss_file') =>
                (last'.op = "delete_index" /\ last'.file_id = f)]_vars

\* One add_vectors step with lists of different lengths or with empty lists.
RejectedOrEmptyStep ==
    (last'.op = "add_vectors" /\ last'.returned) =>
        /\ Len(last'.embeddings) # Len(last'.metadata) =>
              /\ last'.ret = FALSE
              /\ UNCHANGED <<index_cache, metadata_cache, faiss_file, metadata_file>>
        /\ (Len(last'.embeddings) = 0 /\ Len(last'.metadata) = 0) =>
              /\ last'.ret = TRUE
              /\ UNCHANGED <<index_cache, metadata_cache, faiss_file, metadata_file>>

\* C6: add_vectors with len(vectors) # len(metadata) returns false, and with
\* no vectors and no metadata returns true; both leave the cached and the
\* persisted vectors and metadata unchanged and create no index.
C6_RejectedOrEmptyAddIsNoOp == [][RejectedOrEmptyStep]_vars

\* A call with one vector and no metadata was refused for a file_id without
\* an index, while the other file_id has one.
C6_Witness ==
    /\ AddReturned /\ last.ret = FALSE
    /\ Len(last.embeddings) = 1 /\ Len(last.metadata) = 0
    /\ last.file_id \notin DOMAIN faiss_file
    /\ last.file_id \notin DOMAIN index_cache
    /\ DOMAIN faiss_file # {}

\* Pairwise distinct unit vectors.
DistinctUnit(E) ==
    /\ \A i \in 1..Len(E) : Dot(E[i], E[i]) = 1
    /\ \A i, j \in 1..Len(E) : i # j => E[i] # E[j]

\* C7: for a fresh file_id and pairwise distinct unit vectors V with metadata
\* M, add_vectors(f, V, M), then dropping the cache, then search(f, V[j], 1)
\* returns exactly one result, of rank 1 and metadata M[j], for every j.
C7_AddReloadSearch ==
    (AddReturned /\ last.ret /\ last.held_in = "new"
        /\ Len(last.embeddings) > 0 /\ DistinctUnit(last.embeddings)) =>
        \A j \in 1..Len(last.embeddings), tie \in TieOrders :
            LET r == search(clear_cache(Store), last.file_id,
                            last.embeddings[j], 1, tie).ret
            IN  /\ Len(r) = 1
                /\ r[1].rank = 1
                /\ r[1].metadata = last.metadata[j]


\* The same round trip in the runs without I/O failure.
C7_WithoutIoFailure == io_failures = 0 => C7_AddReloadSearch

\* The file_id has an index a search uses: a cached one or a persisted one.
HasIndex(f) == f \in DOMAIN index_cache \/ f \in DOMAIN faiss_file

\* What search returns for an index of n vectors: min(top_k, n) results in
\* non-increasing similarity order, the result at position p with rank p and
\* with the similarity and the metadata of one stored position.
SearchResultsOf ==
    \A f \in FileIds, q \in QueryVectors, k \in TopKs, tie \in TieOrders :
        LET rows == FoundRows(f)
            metadata == FoundMetadata(f)
            n == Len(rows)
            r == search(Store, f, q, k, tie).ret
        IN  (HasIndex(f) /\ n > 0 /\ Len(q) = Len(rows[1])) =>
                /\ Len(r) = Min(k, n)
                /\ \A p \in 1..Len(r) :
                      /\ r[p].rank = p
                      /\ p < Len(r) => r[p].similarity >= r[p + 1].similarity
                      /\ \E i \in 1..n :
                            /\ i <= Len(metadata)
                            /\ r[p].similarity = Dot(rows[i], q)
                            /\ r[p].metadata = metadata[i]

\* C8: for an index of n vectors and any top_k >= 1, search returns exactly
\* min(top_k, n) results in non-increasing similarity order, the result at
\* position p carrying rank p and the metadata stored at the matched
\* vector's position.
C8_SearchResults == SearchResultsOf

\* The same in the runs without I/O failure.
C8_WithoutIoFailure == io_failures = 0 => SearchResultsOf

\* Neither a cache entry nor a vector artifact of f.
NoIndex(f) ==
    /\ f \notin DOMAIN index_cache
    /\ f \notin DOMAIN metadata_cache
    /\ f \notin DOMAIN faiss_file

\* index_exists, get_index_info and every search report "no index" for f,
\* and the calls leave the store as it is.
ReportsNoIndex(f) ==
    /\ ~index_exists(Store, f)
    /\ get_index_info(Store, f) = [ret |-> [exists |-> FALSE], store |-> Store]
    /\ \A q \in QueryVectors, k \in TopKs, tie \in TieOrders :
          search(Store, f, q, k, tie) = [ret |-> <<>>, store |-> Store]

\* One step seen from every file_id: a successful delete, the steps while
\* nothing is held, and a delete of a file_id of which nothing is held.
DeletionStep ==
    \A f \in FileIds :
        /\ (last'.op = "delete_index" /\ last'.file_id = f /\ last'.ret) =>
              NoIndex(f)'
        /\ (NoIndex(f) /\ ~(last'.op = "add_vectors" /\ last'.file_id = f)) =>
              NoIndex(f)'
        /\ NoIndex(f)' => ReportsNoIndex(f)'
        /\ (NoIndex(f) /\ f \notin DOMAIN metadata_file
                /\ last'.op = "delete_index" /\ last'.file_id = f) =>
              /\ last'.ret
              /\ UNCHANGED <<index_cache, metadata_cache, faiss_file, metadata_file>>

\* C9: after delete_index(f) returned success, index_exists(f) is false,
\* get_index_info(f) reports exists = false and search(f, q, k) returns an
\* empty list, whether or not f was cached, and this stays so until the next
\* add_vectors(f, ...); deleting a file_id of which nothing is cached or
\* stored also returns success and changes nothing.
C9_DeletionFinality == [][DeletionStep]_vars

\* A cached index with its artifacts was deleted with success while the
\* other file_id keeps its index.
C9_Witness ==
    /\ last.op = "delete_index" /\ last.ret
    /\ last.held_in = "cache"
    /\ NoIndex(last.file_id)
    /\ ReportsNoIndex(last.file_id)
    /\ DOMAIN faiss_file # {}

\* The file ids of a list.
Requested(file_ids) == {file_ids[i] : i \in 1..Len(file_ids)}

\* The list without file_id.
NotRequesting(file_ids, file_id) == SelectSeq(file_ids, LAMBDA g : g # file_id)

\* search raises inside for file_id: the query has another dimension than
\* the index found.
SearchRaises(file_id, q) ==
    LET found == cached_or_load(Store, file_id)
    IN  found.ok /\ ntotal(found.index) > 0 /\ Len(q) # found.index.d

\* search_multiple_files on the current store: one key per requested
\* file_id, an empty list for a file_id without artifact or with a failing
\* search, and for every requested file_id the other keys as in the call
\* without it.
SearchMultipleFilesIsolated ==
    \A file_ids \in FileIdLists, q \in QueryVectors, k \in TopKs, tie \in TieOrders :
        LET r == search_multiple_files(Store, file_ids, q, k, tie).ret
        IN  /\ DOMAIN r = Requested(file_ids)
            /\ \A f \in Requested(file_ids) :
                  /\ (~index_exists(Store, f) \/ SearchRaises(f, q)) => r[f] = <<>>
                  /\ search_multiple_files(Store, NotRequesting(file_ids, f),
                                           q, k, tie).ret = Without(r, f)

\* The same for retrieve_from_multiple_files.
RetrieveFromMultipleFilesIsolated ==
    \A query \in QueryTexts, file_ids \in FileIdLists, k \in TopKs,
       min_similarity \in MinSimilarities, openai \in OpenAIOutcomes,
       tie \in TieOrders :
        LET r == retrieve_from_multiple_files(Store, query, file_ids, k,
                                              min_similarity, TRUE, openai, tie).ret
            q == encode_query_openai(query, openai)
        IN  /\ DOMAIN r = Requested(file_ids)
            /\ \A f \in Requested(file_ids) :
                  /\ (~HasIndex(f) \/ SearchRaises(f, q)) => r[f] = <<>>
                  /\ retrieve_from_multiple_files(Store, query,
                        NotRequesting(file_ids, f), k, min_similarity, TRUE,
                        openai, tie).ret = Without(r, f)

\* C10: search_multiple_files and retrieve_from_multiple_files return a map
\* with exactly one key per distinct requested file_id; a file_id that has
\* no index or whose search fails maps to an empty list, and the results of
\* the other file_ids are the same as if that file_id had not been
\* requested.  Stated on the store each of the two calls leaves, for every
\* list of file ids, query, top_k and threshold.
C10_MultiFileIsolation ==
    /\ last.op = "search_multiple_files" => SearchMultipleFilesIsolated
    /\ last.op = "retrieve_from_multiple_files" => RetrieveFromMultipleFilesIsolated

\* After a multi-file call, f2 has no index and f1 has one with a match: the
\* call on f2, f1, f2 gives f2 an empty list and f1 its match, by both
\* methods.
C10_Witness ==
    /\ last.op = "retrieve_from_multiple_files"
    /\ ~HasIndex("f2")
    /\ "f1" \in DOMAIN index_cache /\ "f1" \in DOMAIN faiss_file
    /\ LET r == retrieve_from_multiple_files(Store, "q", <<"f2", "f1">>, RAG_TOP_K,
                                             RAG_MIN_SIMILARITY, TRUE,
                                             "other_dimension_or_error", "asc").ret
           m == search_multiple_files(Store, <<"f2", "f1">>, <<1, 0>>, DefaultTopK, "asc").ret
       IN  /\ r["f2"] = <<>> /\ Len(r["f1"]) = 2
           /\ r["f1"][1].file_id = "f1" /\ r["f1"][1].query = "q"
           /\ m["f2"] = <<>> /\ Len(m["f1"]) = 2

\* A cached pair whose metadata list is as long as its index.
CachedLengthsEqual(S, f) ==
    f \in DOMAIN S.index_cache =>
        /\ f \in DOMAIN S.metadata_cache
        /\ Len(S.metadata_cache[f]) = ntotal(S.index_cache[f])

\* C11: load_index(f) either returns an index and a metadata list of equal
\* length or fails; with the vector artifact present and the metadata
\* artifact missing or of another length, it does not return a mismatched
\* pair and puts none in the cache.
C11_LoadVerifiesLengths ==
    \A f \in FileIds :
        LET l == load_index(clear_cache(Store), f)
        IN  l.ok => /\ Len(l.metadata) = ntotal(l.index)
                    /\ CachedLengthsEqual(l.store, f)

\* Thread t has returned from a search while every add_vectors call so far
\* was made by the other thread, one call at a time.
SearchedBesideOneWriter(t) ==
    /\ thread[t].pc = "idle" /\ thread[t].op = "search" /\ thread[t].ret # <<>>
    /\ thread[t].adds = 0

\* C12: a search that runs concurrently with one add_vectors call on the same
\* file_id works on a complete index, the one before the add or the one after
\* it: the index it searched and the metadata list it paired with it, taken
\* from the shared cache or loaded from the two artifacts, have the same
\* length and are aligned.
C12_SearchSeesWholeIndex ==
    \A t \in Threads :
        (SearchedBesideOneWriter(t) /\ io_failures = 0) =>
            Aligned(thread[t].ret[1].index, thread[t].ret[1].metadata)

\* Both threads made one call, add_vectors on f, and both returned True.
BothAdded(f) ==
    \A t \in Threads :
        /\ thread[t].pc = "idle" /\ thread[t].op = "add_vectors"
        /\ thread[t].calls = 1 /\ thread[t].file_id = f
        /\ thread[t].ret = <<TRUE>>

\* Neither call saw the other's record: each built its metadata list from an
\* empty existing list.
NeitherSawTheOther == \A t \in Threads : Len(thread[t].metadata) = 1

\* The index of f the store ends with holds the vectors of both calls, each
\* paired with the metadata of its own call.
HoldsBoth(f) ==
    /\ f \in DOMAIN index_ref /\ f \in DOMAIN metadata_cache
    /\ Aligned(heap[index_ref[f]], metadata_cache[f])
    /\ Len(metadata_cache[f]) = 2
    /\ {metadata_cache[f][i].segment_id : i \in 1..2} =
           {thread[t].segment_id : t \in Threads}

\* C14: with no lock in the store, two add_vectors calls on one file_id can
\* interleave so that both return True and the index does not hold both
\* calls' vectors each with its own metadata: whenever both calls return True
\* and neither saw the other's record, the cached index keeps one metadata
\* record for one or two vectors, although two adds returned True.
C14_ConcurrentAddsLoseOne ==
    \A f \in FileIds :
        (BothAdded(f) /\ NeitherSawTheOther) =>
            /\ Len(added[f]) = 2
            /\ f \in DOMAIN index_ref /\ f \in DOMAIN metadata_cache
            /\ Len(metadata_cache[f]) = 1
            /\ ntotal(heap[index_ref[f]]) \in 1..2
            /\ ~HoldsBoth(f)

\* Two add_vectors calls on f1 ran at once without any I/O failure, both
\* returned True and one call's vector or metadata is gone.
C14_Witness ==
    /\ BothAdded("f1") /\ io_failures = 0
    /\ thread["t1"].segment_id # thread["t2"].segment_id
    /\ ~HoldsBoth("f1")

\* No write call on f is running.
Quiescent(f) ==
    \A t \in Threads : thread[t].pc = "idle" \/ thread[t].file_id # f

\* The cached index of f, when there is one, holds in call order exactly the
\* vectors and the metadata of the adds on f that returned True since its last
\* delete.
CacheHoldsAdded(f) ==
    f \in DOMAIN index_ref =>
        /\ heap[index_ref[f]].xb = EmbeddingsOf(added[f])
        /\ f \in DOMAIN metadata_cache
        /\ metadata_cache[f] = MetadataOf(added[f])

\* The same for the persisted index of f.
PersistedHoldsAdded(f) ==
    /\ (IF f \in DOMAIN faiss_file THEN faiss_file[f].xb ELSE <<>>) = EmbeddingsOf(added[f])
    /\ (IF f \in DOMAIN metadata_file THEN json_load(metadata_file[f]) ELSE <<>>)
           = MetadataOf(added[f])

Entry(d, f) == IF f \in DOMAIN d THEN <<d[f]>> ELSE <<>>

\* A step of a call on one file_id leaves the cached and the persisted index
\* of every other file_id as they were.
OtherFilesUntouched ==
    \A g \in FileIds :
        (\A t \in Threads : thread'[t] # thread[t] => thread'[t].file_id # g) =>
            /\ Entry(index_ref', g) = Entry(index_ref, g)
            /\ (g \in DOMAIN index_ref => heap'[index_ref[g]] = heap[index_ref[g]])
            /\ Entry(metadata_cache', g) = Entry(metadata_cache, g)
            /\ Entry(faiss_file', g) = Entry(faiss_file, g)
            /\ Entry(metadata_file', g) = Entry(metadata_file, g)

NoAddLostStep ==
    /\ \A f \in FileIds :
          Quiescent(f)' => CacheHoldsAdded(f)' /\ PersistedHoldsAdded(f)'
    /\ OtherFilesUntouched

\* C13: when the callers run at most one add_vectors or delete_index call per
\* file_id at a time, then under every interleaving of the writes to different
\* file ids, once no write on a file_id is running its index, cached and
\* persisted, holds in call order exactly the vectors and metadata of the adds
\* that returned True since its last delete, and no step of a write on one
\* file_id changes the cached or persisted index of another one.
C13_NoAddLostPerFile == [][NoAddLostStep]_vars

\* The same in the runs where no write to an artifact fails.
NoAddLostWithoutIoFailureStep == io_failures' = 0 => NoAddLostStep

C13_WithoutIoFailure == [][NoAddLostWithoutIoFailureStep]_vars

\* The records of a listing that carry file_id f.
RecordsOf(indices, f) == {i \in 1..Len(indices) : indices[i].file_id = f}

C16_FallbackToLocal ==
    \A query \in QueryTexts :
        /\ encode_query_openai(query, "other_dimension_or_error") = encode_query_local(query)
        /\ \A f \in FileIds, k \in TopKs, min_similarity \in MinSimilarities,
              tie \in TieOrders :
              retrieve_from_file(Store, query, f, k, min_similarity, TRUE,
                                 "other_dimension_or_error", tie)
                = retrieve_from_file(Store, query, f, k, min_similarity, FALSE,
                                     "embedding", tie)

\* After a retrieve_from_file call, f1 holds the vector the API would give for
\* the empty query: with the primary path failing the call returns the local
\* model's result, which differs from the one the API's vector would give.
C16_Witness ==
    /\ last.op = "retrieve_from_file"
    /\ io_failures = 0
    /\ index_exists(Store, "f1")
    /\ retrieve_from_file(Store, "", "f1", RAG_TOP_K, 1, TRUE,
                          "other_dimension_or_error", "asc").ret = <<>>
    /\ retrieve_from_file(Store, "", "f1", RAG_TOP_K, 1, TRUE, "embedding", "asc").ret
           # <<>>

\* C17: the vector handed to search has the dimension of the index that is
\* searched: the primary provider's vector is used only when its dimension is
\* that of the index, the local model's vector otherwise.
C17_QueryVectorHasIndexDimension ==
    \A f \in FileIds, query \in QueryTexts, openai \in OpenAIOutcomes :
        index_exists(Store, f) =>
            LET index == cached_or_load(Store, f).index
                query_vector == query_vector_of(query, TRUE, openai)
            IN  /\ Len(query_vector) = index.d
                /\ (openai = "embedding" /\ Len(OpenAIEmbedding(query)) # index.d)
                       => query_vector # OpenAIEmbedding(query)

\* What retrieve_from_file is to return for a file_id that has an index: the
\* results of the top_k search at or above the threshold, in the order of the
\* search, with the query and the file_id attached.
FilteredSearch(f, query, k, min_similarity, use_openai, openai, tie) ==
    LET found == search(Store, f, query_vector_of(query, use_openai, openai), k, tie).ret
        kept == SelectSeq(found, LAMBDA result : result.similarity >= min_similarity)
    IN  [i \in 1..Len(kept) |->
            [rank |-> kept[i].rank, score |-> kept[i].score,
             similarity |-> kept[i].similarity, metadata |-> kept[i].metadata,
             query |-> query, file_id |-> f]]

RetrieveFromFileResults ==
    \A f \in FileIds, query \in QueryTexts, k \in TopKs,
       min_similarity \in MinSimilarities, use_openai \in BOOLEAN,
       openai \in OpenAIOutcomes, tie \in TieOrders :
        LET ret == retrieve_from_file(Store, query, f, k, min_similarity, use_openai,
                                      openai, tie).ret
        IN  /\ HasIndex(f) =>
                  ret = FilteredSearch(f, query, k, min_similarity, use_openai, openai, tie)
            /\ ~HasIndex(f) => ret = <<>>
            /\ \A i \in 1..Len(ret) : ret[i].similarity >= min_similarity

\* C18: for every query, file_id, top_k and min_similarity, retrieve_from_file
\* returns exactly the results of the file's top_k search with similarity >=
\* min_similarity, in the order of the search, each with the query and the
\* file_id attached; it returns the empty list when the file has no index.
C18_RetrieveFromFile == RetrieveFromFileResults

\* The same in the runs where no write or remove fails.
C18_WithoutIoFailure == io_failures = 0 => RetrieveFromFileResults

\* The entries of a result list that come from file_id f.
EntriesFrom(ret, f) == {i \in 1..Len(ret) : ret[i].file_id = f}

NonIncreasing(ret) ==
    \A i \in 1..Len(ret) : \A j \in i..Len(ret) : ret[i].similarity >= ret[j].similarity

\* C19: with n >= 1 existing indices, retrieve_all_available searches each
\* index with the per-file limit max(1, floor(top_k_total / n)) and returns a
\* list in non-increasing similarity order with at most top_k_total entries
\* and at most the per-file limit of entries from any one file, each of a rank
\* within that limit; with no index it returns the empty list.  Stated with
\* the configured min_similarity.
C19_AllAvailableSplit ==
    \A query \in AllQueryTexts, top_k_total \in TopKs, openai \in OpenAIOutcomes,
       tie \in TieOrders, listing \in DirectoryOrders :
        LET sorted == sorted_results_of_all(Store, query, top_k_total,
                                            RAG_MIN_SIMILARITY, TRUE, openai, tie, listing)
            n == Cardinality(DOMAIN faiss_file)
            limit == IF top_k_total \div n > 1 THEN top_k_total \div n ELSE 1
        IN  \A text_of \in TextAssignments :
                \* what retrieve_all_available returns for these arguments
                LET ret == quality_filtered(sorted, top_k_total, text_of)
                IN  IF n = 0 THEN ret = <<>>
                    ELSE /\ NonIncreasing(ret)
                         /\ Len(ret) <= top_k_total
                         /\ \A f \in FileIds : Cardinality(EntriesFrom(ret, f)) <= limit
                         /\ \A i \in 1..Len(ret) : ret[i].rank <= limit

\* After a retrieve_all_available call with two indices listed: for the query
\* "r" and a total of 3 the per-file limit is 1, and the call returns the
\* entry of f2 before the entry of f1, of smaller similarity, although f1 is
\* listed first.
C19_Witness ==
    /\ last.op = "retrieve_all_available"
    /\ DOMAIN faiss_file = FileIds
    /\ \E text_of \in TextAssignments :
          LET ret == retrieve_all_available(Store, "r", 3, 0, TRUE, "embedding", "asc",
                                            <<"f1", "f2">>, text_of).ret
          IN  /\ Len(ret) = 2
              /\ ret[1].file_id = "f2" /\ ret[2].file_id = "f1"
              /\ ret[1].similarity > ret[2].similarity
              /\ ntotal(index_cache["f2"]) = 2

\* The three tests of the claim on a text and a similarity.
PassesQuality(text, similarity) ==
    /\ similarity * 100 >= 2
    /\ text.stripped >= 20
    /\ ~(text.markers /\ text.len < 500)

\* C20: whatever min_similarity the caller passes, no result of
\* retrieve_all_available has a similarity below 0.02, a stripped text of
\* fewer than 20 characters or a text of fewer than 500 characters with the
\* journal-header markers; the results are the first top_k_total entries, in
\* sorted order, of the merged per-file results (which passed min_similarity)
\* that pass the three tests.
C20_QualityFilter ==
    \A query \in AllQueryTexts, top_k_total \in TopKs,
       min_similarity \in MinSimilarities, openai \in OpenAIOutcomes,
       listing \in DirectoryOrders :
        LET sorted == sorted_results_of_all(Store, query, top_k_total, min_similarity,
                                            TRUE, openai, "asc", listing)
        IN  \A text_of \in TextAssignments :
                \* what retrieve_all_available returns for these arguments
                LET ret == quality_filtered(sorted, top_k_total, text_of)
                    passing == SelectSeq(sorted.ret,
                                   LAMBDA result :
                                       PassesQuality(text_of[result.metadata.segment_id],
                                                     result.similarity))
                IN  /\ \A i \in 1..Len(ret) :
                          /\ PassesQuality(text_of[ret[i].metadata.segment_id],
                                           ret[i].similarity)
                          /\ ret[i].similarity >= min_similarity
                    /\ Len(ret) = Min(top_k_total, Len(passing))
                    /\ ret = SubSeq(passing, 1, Len(ret))

\* After a retrieve_all_available call: with min_similarity 0 the merged
\* results for "q" hold an entry of similarity 0, which is not returned, and
\* the merged results for "r" hold an entry whose text is a journal header,
\* which is not returned either, while the other entry is.
C20_Witness ==
    /\ last.op = "retrieve_all_available"
    /\ \E text_of \in TextAssignments :
          LET sorted == sorted_results_of_all(Store, "q", 3, 0, TRUE, "embedding",
                                              "asc", <<"f1", "f2">>)
              ret == retrieve_all_available(Store, "q", 3, 0, TRUE, "embedding", "asc",
                                            <<"f1", "f2">>, text_of).ret
          IN  /\ Len(sorted.ret) = 2 /\ sorted.ret[2].similarity = 0
              /\ ret = <<sorted.ret[1]>>
    /\ \E text_of \in TextAssignments :
          LET sorted == sorted_results_of_all(Store, "r", 3, 0, TRUE, "embedding",
                                              "asc", <<"f1", "f2">>)
              ret == retrieve_all_available(Store, "r", 3, 0, TRUE, "embedding", "asc",
                                            <<"f1", "f2">>, text_of).ret
          IN  /\ Len(sorted.ret) = 2
              /\ text_of[sorted.ret[1].metadata.segment_id].markers
              /\ text_of[sorted.ret[1].metadata.segment_id].len < 500
              /\ ret = <<sorted.ret[2]>>

\* C21: for every non-empty result list and every max_length, the context
\* string format_context_for_rag returns, the numbered entries and the
\* separators that join them, has at most max_length characters.
C21_ContextWithinMaxLength ==
    (last.op = "format_context_for_rag" /\ last.texts # <<>>) =>
        Len(last.ret.context) <= last.max_length

\* The entries alone stay within max_length.
C21_EntriesWithinMaxLength ==
    (last.op = "format_context_for_rag" /\ last.texts # <<>>) =>
        Len(last.ret.context) - 4 * (IF last.ret.cited > 0 THEN last.ret.cited - 1 ELSE 0)
            <= last.max_length

(***************************************************************************)
(* Segmentation.                                                          *)
(***************************************************************************)
Segmented == last.op = "segment_document"

\* C22: every segment that segment_document returns, base or overlapping,
\* has a trimmed text of at least min_segment_length characters, and a
\* document that is empty or shorter than min_segment_length gives the empty
\* list.
C22_SegmentsAtLeastMin ==
    Segmented =>
        /\ \A k \in 1..Len(last.ret) :
               Len(strip(last.ret[k].text)) >= min_segment_length
        /\ Len(last.text) < min_segment_length => last.ret = <<>>

\* A too short segment of the sentence-by-sentence split was left out, and
\* an overlapping segment was returned.
C22_Witness ==
    /\ Segmented
    /\ LET segments == split_text_into_segments(clean_text(last.text))
       IN  /\ \E i \in 1..Len(segments) : Len(strip(segments[i])) < min_segment_length
           /\ Len(segments) > Len(base_segments(clean_text(last.text)))
           /\ Len(last.ret) >= 2

\* C23: every base segment that segment_document returns has at most
\* max_segment_length characters.
C23_BaseSegmentsWithinMax ==
    Segmented =>
        LET base == base_segments(clean_text(last.text))
        IN  \A i \in 1..Len(base) :
                Len(strip(base[i])) >= min_segment_length =>
                    Len(base[i]) <= max_segment_length

\* No base segment is longer than max_segment_length + 1.
C23_BaseSegmentsWithinMaxPlusOne ==
    Segmented =>
        LET base == base_segments(clean_text(last.text))
        IN  \A i \in 1..Len(base) : Len(base[i]) <= max_segment_length + 1

\* C24: segmenting the same text for the same file_id again gives the same
\* sequence: as many segments, with the same segment_id, order and text.
C24_SegmentationDeterministic ==
    Segmented =>
        \A uuids \in UuidDraws(Len(last.ret)) :
            segment_document("f1", last.text, uuids) = last.ret

\* The order and the text of every segment are the same in every run.
C24_SameOrderAndText ==
    Segmented =>
        \A uuids \in UuidDraws(Len(last.ret)) :
            LET again == segment_document("f1", last.text, uuids)
            IN  /\ Len(again) = Len(last.ret)
                /\ \A k \in 1..Len(again) :
                       /\ again[k].order = last.ret[k].order
                       /\ again[k].text = last.ret[k].text
                       /\ again[k].segment_id[1] = last.ret[k].segment_id[1]
                       /\ again[k].segment_id[2] = last.ret[k].segment_id[2]

\* The paragraphs of a document: its parts between blank lines.
Paragraphs == split_blank_lines(last.text, <<>>)

\* C27: for a document of three or more paragraphs separated by blank lines,
\* each of min_segment_length to max_segment_length characters, the base
\* segments are exactly those paragraphs, each once and in order.
C27_BlankLineParagraphsKept ==
    (/\ Segmented
     /\ Len(Paragraphs) >= 3
     /\ \A i \in 1..Len(Paragraphs) :
            /\ Len(clean_text(Paragraphs[i])) >= min_segment_length
            /\ Len(clean_text(Paragraphs[i])) <= max_segment_length) =>
        base_segments(clean_text(last.text))
            = [i \in 1..Len(Paragraphs) |-> clean_text(Paragraphs[i])]

\* The text that is split has no blank line left: the split on blank lines
\* gives one part, and the windows of fixed length are what is used.
C27_CleanedTextIsOneParagraph ==
    Segmented =>
        LET text == clean_text(last.text)
        IN  /\ Len(split_blank_lines(text, <<>>)) = 1
            /\ split_by_natural_paragraphs(text)
                   = split_by_fixed_length(text, max_segment_length)

\* The output that is described for the base segments base: each of them in
\* order and, after every one at an even 0-based index that has a successor,
\* the last overlap_length characters of it, a space and the first
\* overlap_length characters of the successor, trimmed, when that has at
\* least min_segment_length characters.
ExpectedOutput(base) ==
    LET LastChars(seg) ==
            SubSeq(seg, IF Len(seg) > overlap_length
                        THEN Len(seg) - overlap_length + 1 ELSE 1, Len(seg))
        FirstChars(seg) == SubSeq(seg, 1, Min(Len(seg), overlap_length))
        Overlap(n) == strip(LastChars(base[n]) \o <<" ">> \o FirstChars(base[n + 1]))
        WithOverlap(n) == IF n % 2 = 1 /\ n < Len(base)
                       /\ Len(Overlap(n)) >= min_segment_length
                    THEN <<base[n], Overlap(n)>>
                    ELSE <<base[n]>>
        Upto[n \in 0..Len(base)] == IF n = 0 THEN <<>> ELSE Upto[n - 1] \o WithOverlap(n)
    IN  Upto[Len(base)]

ReturnedTexts == [k \in 1..Len(last.ret) |-> last.ret[k].text]

\* C28: for two or more base segments the output is the base segments in
\* order with the overlapping segments after the even-indexed ones, and the
\* order of every returned segment is its 1-based position in the output.
C28_OverlapsAndOrders ==
    (Segmented /\ Len(base_segments(clean_text(last.text))) >= 2) =>
        /\ ReturnedTexts
               = SelectSeq(ExpectedOutput(base_segments(clean_text(last.text))),
                           LAMBDA seg : Len(seg) >= min_segment_length)
        /\ \A k \in 1..Len(last.ret) : last.ret[k].order = k

\* The texts are the described ones, in the described places.
C28_OverlapsInterleaved ==
    (Segmented /\ Len(base_segments(clean_text(last.text))) >= 2) =>
        ReturnedTexts
            = SelectSeq(ExpectedOutput(base_segments(clean_text(last.text))),
                        LAMBDA seg : Len(seg) >= min_segment_length)

\* The orders increase strictly, and each is the position of the segment in
\* the sequence before the too short segments were left out.
C28_OrdersIncrease ==
    Segmented =>
        LET segments == split_text_into_segments(clean_text(last.text))
        IN  \A k \in 1..Len(last.ret) :
                /\ last.ret[k].order \in 1..Len(segments)
                /\ last.ret[k].text = strip(segments[last.ret[k].order])
                /\ k > 1 => last.ret[k - 1].order < last.ret[k].order

\* Every iteration of the two loops moves on: the window start grows by at
\* least one character, the index of the sentences by at least one.
LoopsAdvance ==
    /\ (last.op = "split_by_fixed_length" /\ last'.op = last.op) =>
           last'.start > last.start
    /\ (last.op = "intelligent_split_paragraph" /\ last'.op = last.op) =>
           last'.i > last.i

\* C29: for every text and every max_segment_length of at least 1 the two
\* loops of the segmentation move on with every iteration, and end.
C29_Terminates == [][LoopsAdvance]_vars /\ <>(last.op = "return")

\* Both loops have ended, after a cut that was moved to a sentence boundary
\* and after a sentence end that was joined to its sentence.
C29_Witness == last.op = "return" /\ last.snapped /\ last.joined

(***************************************************************************)
(* Entry points.                                                          *)
(***************************************************************************)
EntryPoint == last.op \in {"rag_qa", "search_embeddings", "search_multi"}

NoWorkDone == last.status = 400 /\ last.embedding_calls = 0 /\ last.searches = 0

\* C25: on every entry point a request with a blank query, an empty file id
\* or a top_k that is not positive is rejected before any embedding call and
\* before any index is searched.
C25_InvalidRejectedBeforeWork ==
    (EntryPoint /\ (last.blank_query \/ last.empty_file_id \/ last.bad_top_k)) =>
        NoWorkDone

\* A blank query is rejected on every entry point, and a top_k that is not
\* positive on the question answering and the single-file search.
C25_BlankQueryRejected ==
    /\ (EntryPoint /\ last.blank_query) => NoWorkDone
    /\ (last.op \in {"rag_qa", "search_embeddings"} /\ last.bad_top_k) => NoWorkDone

(***************************************************************************)
(* Unreadable artifacts, and indexes built again.                          *)
(***************************************************************************)
\* C26: when the artifact of a file_id exists and cannot be read, search and
\* retrieve_from_file raise an error to the caller; they do not return what
\* they return for a file_id without index.
C26_UnreadableRaises ==
    (last.op \in {"search", "retrieve_from_file"} /\ last.unreadable) =>
        /\ last.raised
        /\ last.found # Len(search(Store, "", <<1, 0>>, DefaultTopK, "asc").ret)

\* Both calls return the empty list for an unreadable artifact, as they do
\* for a file_id without index, and raise nothing.
C26_UnreadableLooksAbsent ==
    (last.op \in {"search", "retrieve_from_file"} /\ last.unreadable) =>
        ~last.raised /\ last.found = 0

\* The index of last.file_id as a search finds it.
IndexSeen == cached_or_load(Store, last.file_id)

CreatedAgain ==
    /\ last.op = "create_embeddings"
    /\ last.recreate
    /\ last.returned
    /\ last.success

ExactlyTheSegments ==
    /\ IndexSeen.ok
    /\ IndexSeen.index.xb = EmbeddingsOf(last.segs)
    /\ IndexSeen.metadata = MetadataOf(last.segs)

\* C30: after create_embeddings with recreate set reports success, the index
\* of the file holds exactly one vector per segment of the file, with the
\* metadata in the order of the segments, and no vector from before the
\* call, also when delete_index failed.
C30_RecreateReplaces == CreatedAgain => ExactlyTheSegments

\* The same for the calls in which no remove and no write fails.
C30_WithoutIoFailure == (CreatedAgain /\ last.failures = 0) => ExactlyTheSegments
====
